---- MODULE Spec2Model ----
(***************************************************************************)
(* A model of the sharded in-memory task store (package storage,           *)
(* MemoryStorage) and of the task model it stores (package models).        *)
(*                                                                         *)
(* Every store operation is a sequence of steps of the calling thread; a   *)
(* step is one access to shared state (an atomic load or add of the task   *)
(* counter, a lock acquisition, or a critical section together with the    *)
(* release that ends it).  Thread-local computation is part of the step    *)
(* that follows it.                                                        *)
(*                                                                         *)
(* A *Task is a pointer value [nil, ref, obj]: obj is the struct it points *)
(* to and ref is the key of the map slot that holds this very pointer      *)
(* (0: the pointer is in no map slot).  A write through a pointer whose    *)
(* ref is not 0 is a write to the stored record.                           *)
(***************************************************************************)
EXTENDS Integers, Sequences, FiniteSets, TLC

\* ------------------------------------------------------------------ bounds
NumThreads == 2        \* callers of the concurrent specifications
MaxIds == 3            \* uuids the generator may issue in a run of one caller
RaceIds == 4           \* uuids the generator may issue in a run of concurrent callers
MaxClock == 1          \* ticks of the clock after the first instant
CreatesPerThread == 2  \* M of the N x M concurrent-create scenario
ConcCalls == 2         \* calls each caller makes in the run of Creates and Updates
SmallCeiling == 2      \* the maxTasks the small stores are constructed with
MaxRequests == 3       \* requests the rate limiter judges in a run
MaxLimiterClock == 4   \* the last time the rate limiter's clock reaches

\* ------------------------------------------------------- program constants
TaskIncomplete == 0
TaskCompleted == 1
MaxNameLen == 255
DefaultMaxTasks == 10000
DefaultShardCount == 32
SmallShardCount == 8
LargeShardCount == 64
SmallThreshold == 1000
LargeThreshold == 100000
\* FNV-1a, 32 bit, as two 16-bit limbs: 2166136261 = 33052 * 2^16 + 40389,
\* 16777619 = 256 * 2^16 + 403.
FnvOffsetHi == 33052
FnvOffsetLo == 40389
FnvPrimeHi == 256
FnvPrimeLo == 403
Limb == 65536

Threads == 1..NumThreads
Ids == 1..MaxIds

VARIABLES
    tasks,      \* shard index -> that shard's map: key -> Task struct
    wlock,      \* shard index -> the thread holding the write lock, or 0
    rlock,      \* shard index -> the threads holding a read lock
    maxTasks,   \* ms.maxTasks
    shardCount, \* ms.shardCount
    given,      \* the maxTasks NewMemoryStorage was called with
    made,       \* shard index -> whether that shard's map is not nil
    taskCount,  \* ms.taskCount, the atomic counter
    clock,      \* what time.Now() returns
    uuids,      \* how many uuids uuid.New() has issued
    pc,         \* thread -> where it is in its operation
    loc,        \* thread -> the locals and the result of its operation
    recording,  \* history: whether calls record snap and chain (one caller only)
    snap,       \* history: the records and the counter when the running call began
    chain,      \* history: the record the call before this one created
    calls,      \* the caller's loop counter: thread -> the calls it has made
    assigned,   \* history: id -> how many successful Creates returned it
    solo,       \* history: thread -> nothing else has run since its call began
    limiter,    \* the RateLimiter: its limits, its two maps of records, its mutex
    http,       \* thread -> the HTTP request it serves and the response it wrote
    served,     \* history: the requests the rate limiter has judged, in order
    single,     \* the single-lock MemoryStorage run beside the sharded one, and its last result
    hashing     \* the last two getShard calls made on their own: key, hash, shard index

vars == <<tasks, wlock, rlock, maxTasks, shardCount, given, made, taskCount, clock, uuids, pc, loc,
          recording, snap, chain, calls, assigned, solo, limiter, http, served, single, hashing>>

\* ------------------------------------------------------------- the model
\* the string of n copies of c
RECURSIVE Repeat(_, _)
Repeat(c, n) ==
    IF n = 0 THEN ""
    ELSE LET half == Repeat(c, n \div 2)
         IN  IF n % 2 = 0 THEN half \o half ELSE half \o half \o c

LongestName == Repeat("x", MaxNameLen)
TooLongName == Repeat("x", MaxNameLen + 1)

\* models.Task, and the zero struct
NoTask == [ID |-> 0, Name |-> "", Status |-> 0, CreatedAt |-> 0, UpdatedAt |-> 0]
NilPtr == [nil |-> TRUE, ref |-> 0, obj |-> NoTask]
\* &v for a struct v that is in no map slot
AddrOf(v) == [nil |-> FALSE, ref |-> 0, obj |-> v]

\* IsValid as it would be if it took every status from 0 upwards
IsValidLoose(ts) == ts >= TaskIncomplete

\* TaskStatus.IsValid
IsValid(ts) == ts = TaskIncomplete \/ ts = TaskCompleted

\* CreateTaskRequest.Validate as it would be without the check of the status
CreateValidateNameOnly(req) ==
    IF req.Name = "" THEN "task name cannot be empty"
    ELSE IF Len(req.Name) > MaxNameLen THEN "task name cannot exceed 255 characters"
    ELSE ""

\* CreateTaskRequest.Validate: "" is no error
CreateValidate(req) ==
    IF req.Name = "" THEN "task name cannot be empty"
    ELSE IF Len(req.Name) > MaxNameLen THEN "task name cannot exceed 255 characters"
    ELSE IF ~IsValid(req.Status) THEN "invalid task status"
    ELSE ""

\* UpdateValidate as it would be without the check of the status
UpdateValidateNameOnly(req) ==
    IF req.Name.set /\ req.Name.val = "" THEN "task name cannot be empty"
    ELSE IF req.Name.set /\ Len(req.Name.val) > MaxNameLen
        THEN "task name cannot exceed 255 characters"
    ELSE ""

\* UpdateTaskRequest: Name and Status are pointers, [set |-> FALSE] is nil
UpdateValidate(req) ==
    IF req.Name.set /\ req.Name.val = "" THEN "task name cannot be empty"
    ELSE IF req.Name.set /\ Len(req.Name.val) > MaxNameLen
        THEN "task name cannot exceed 255 characters"
    ELSE IF req.Status.set /\ ~IsValid(req.Status.val) THEN "invalid task status"
    ELSE ""

\* HasUpdates as it would be if Update did not look at it
HasUpdatesAlways(req) == TRUE

HasUpdates(req) == req.Name.set \/ req.Status.set

\* ApplyTo as it would be if it refreshed created_at along with updated_at
ApplyToRestamping(req, task, now) ==
    LET named == IF req.Name.set
                 THEN [task EXCEPT !.Name = req.Name.val, !.UpdatedAt = now, !.CreatedAt = now]
                 ELSE task
    IN  IF req.Status.set
        THEN [named EXCEPT !.Status = req.Status.val, !.UpdatedAt = now, !.CreatedAt = now]
        ELSE named

\* ApplyTo as it would be if it stamped created_at in place of updated_at
ApplyToStampingCreated(req, task, now) ==
    LET named == IF req.Name.set
                 THEN [task EXCEPT !.Name = req.Name.val, !.CreatedAt = now]
                 ELSE task
    IN  IF req.Status.set
        THEN [named EXCEPT !.Status = req.Status.val, !.CreatedAt = now]
        ELSE named

\* ApplyTo as it would be if it assigned both fields, supplied or not
ApplyToWhole(req, task, now) ==
    [task EXCEPT !.Name = req.Name.val, !.Status = req.Status.val, !.UpdatedAt = now]

\* UpdateTaskRequest.ApplyTo, on the struct the pointer points to; now is time.Now()
ApplyTo(req, task, now) ==
    LET named == IF req.Name.set
                 THEN [task EXCEPT !.Name = req.Name.val, !.UpdatedAt = now]
                 ELSE task
    IN  IF req.Status.set
        THEN [named EXCEPT !.Status = req.Status.val, !.UpdatedAt = now]
        ELSE named

\* NewTask as it would be if it left updated_at unset
NewTaskUnstamped(name, status, now, taskID) ==
    [ID |-> taskID, Name |-> name, Status |-> status, CreatedAt |-> now, UpdatedAt |-> 0]

\* models.NewTask followed by Create's task.ID = taskID
NewTask(name, status, now, taskID) ==
    [ID |-> taskID, Name |-> name, Status |-> status, CreatedAt |-> now, UpdatedAt |-> now]

\* the return as it would be if it handed out the pointer itself, not a copy
SamePointer(p) == p

\* taskCopy := *task; return &taskCopy
CopyOf(p) == AddrOf(p.obj)

\* ---- fnv32Hash / getShard
\* The ASCII codes of the hexadecimal digits a uuid string is made of.
HexDigits == <<48, 49, 50, 51, 52, 53, 54, 55, 56, 57, 97, 98, 99, 100, 101, 102>>

\* The i-th uuid the generator issues, as the bytes of a three-digit key: "510",
\* "a40", "f90", "400", "990", "e40", ...
IdKey(i) ==
    <<HexDigits[1 + ((5 * i) % 16)], HexDigits[1 + ((i * i) % 16)],
      HexDigits[1 + ((i \div 16) % 16)]>>

RECURSIVE BitXor(_, _, _)
BitXor(a, b, bits) ==
    IF bits = 0 THEN 0
    ELSE (((a % 2) + (b % 2)) % 2) + 2 * BitXor(a \div 2, b \div 2, bits - 1)

\* the loop body as it would be in FNV-1: hash *= prime; hash ^= uint32(key[i])
FnvStepMultiplyFirst(h, byte) ==
    LET p == h[2] * FnvPrimeLo
        hi == ((h[1] * FnvPrimeLo) + (h[2] * FnvPrimeHi) + (p \div Limb)) % Limb
    IN  << hi, BitXor(p % Limb, byte, 16) >>

\* hash ^= uint32(key[i]); hash *= prime, on the limbs <<hi, lo>>, modulo 2^32
FnvStep(h, byte) ==
    LET lo == BitXor(h[2], byte, 16)
        hi == h[1]
        p  == lo * FnvPrimeLo
    IN  << ((hi * FnvPrimeLo) + (lo * FnvPrimeHi) + (p \div Limb)) % Limb, p % Limb >>

RECURSIVE FnvFrom(_, _, _)
FnvFrom(h, key, i) ==
    IF i > Len(key) THEN h ELSE FnvFrom(FnvStep(h, key[i]), key, i + 1)

fnv32Hash(key) == FnvFrom(<<FnvOffsetHi, FnvOffsetLo>>, key, 1)

\* hash % n for the hash hi * 2^16 + lo
HashMod(h, n) == (((h[1] % n) * (Limb % n)) + h[2]) % n

\* the ids a run may hold, and 0, the empty ID no uuid has
IdSpace == 0..(MaxIds + RaceIds + (NumThreads * CreatesPerThread))

HashOfId == [i \in IdSpace |-> fnv32Hash(IdKey(i))]

\* getShard as it would be if it took the hash modulo one less than the shard count
ShardIndexShort(id) == HashMod(HashOfId[id], shardCount - 1)

\* the index getShard computes for the key of id
ShardIndex(id) == HashMod(HashOfId[id], shardCount)

\* ---- NewMemoryStorage
\* the ceiling as it would be if only a negative maxTasks gave the default
EffectiveMaxTasksStrict(n) == IF n < 0 THEN DefaultMaxTasks ELSE n

\* if maxTasks <= 0 { maxTasks = 10000 }
EffectiveMaxTasks(n) == IF n <= 0 THEN DefaultMaxTasks ELSE n

\* the shard count as it would be if the two thresholds belonged to the outer ranges
ShardCountForInclusive(n) ==
    IF EffectiveMaxTasks(n) <= SmallThreshold THEN SmallShardCount
    ELSE IF EffectiveMaxTasks(n) >= LargeThreshold THEN LargeShardCount
    ELSE DefaultShardCount

ShardCountFor(n) ==
    IF EffectiveMaxTasks(n) < SmallThreshold THEN SmallShardCount
    ELSE IF EffectiveMaxTasks(n) > LargeThreshold THEN LargeShardCount
    ELSE DefaultShardCount

EmptyMap == [k \in {} |-> NoTask]

\* a map that was never made
NilTaskMap == [nil |-> TRUE, m |-> EmptyMap]

\* make(map[string]*models.Task)
MakeTaskMap == [nil |-> FALSE, m |-> EmptyMap]

\* ---- the shard maps
Shards == 0..(shardCount - 1)
Stored(id) == id \in DOMAIN tasks[ShardIndex(id)]
AllKeys == UNION {DOMAIN tasks[i] : i \in Shards}
RecordCount == Cardinality(AllKeys)

MapPut(m, k, v) == [x \in DOMAIN m \cup {k} |-> IF x = k THEN v ELSE m[x]]
\* delete as it would be if it removed nothing
MapDelNothing(m, k) == m

MapDel(m, k) == [x \in DOMAIN m \ {k} |-> m[x]]

\* every sequence that lists the elements of S once: the orders a range over a
\* map may take
Orders(S) ==
    {s \in [1..Cardinality(S) -> S] : \A a, b \in 1..Cardinality(S) : s[a] = s[b] => a = b}

\* ---- pointers into and out of the maps
\* task := shard.tasks[k], for a key k of shard i's map
SlotPtr(i, k) == [nil |-> FALSE, ref |-> k, obj |-> tasks[i][k]]

\* a map slot in K is overwritten or removed: a pointer that was in it is in no
\* slot any more
DetachPtr(p, K) == IF p.ref \in K THEN [p EXCEPT !.ref = 0] ELSE p

DetachLoc(l, K) ==
    [l EXCEPT !.task = DetachPtr(@, K),
              !.list = [j \in DOMAIN @ |-> DetachPtr(@[j], K)]]

Detach(K) == [u \in Threads |-> DetachLoc(loc[u], K)]

\* ---- int: a 64-bit two's complement integer, as four 16-bit limbs, the most
\* significant first
Int64Of(n) == <<0, 0, 0, n>>

\* math.MaxInt64
MaxInt64 == <<(Limb \div 2) - 1, Limb - 1, Limb - 1, Limb - 1>>

\* a + b of Go, which wraps around
Add64(a, b) ==
    LET s4 == a[4] + b[4]
        s3 == a[3] + b[3] + (s4 \div Limb)
        s2 == a[2] + b[2] + (s3 \div Limb)
        s1 == a[1] + b[1] + (s2 \div Limb)
    IN  <<s1 % Limb, s2 % Limb, s3 % Limb, s4 % Limb>>

IsNeg64(a) == a[1] >= Limb \div 2

\* a < b, of the limbs read as unsigned numbers
Below64(a, b) ==
    \E i \in 1..4 : a[i] < b[i] /\ \A j \in 1..(i - 1) : a[j] = b[j]

\* a < b of Go
Less64(a, b) ==
    IF IsNeg64(a) # IsNeg64(b) THEN IsNeg64(a) ELSE Below64(a, b)

\* the value of an int between 0 and the length of a slice of the model
Small64(a) == a[4]

\* ---- locals
NoCreate == [Name |-> "", Status |-> 0]
NoField == [set |-> FALSE, val |-> 0]
NoUpdate == [Name |-> [set |-> FALSE, val |-> ""], Status |-> NoField]

Loc0 ==
    [op |-> "", id |-> 0, creq |-> NoCreate, ureq |-> NoUpdate,
     status |-> 0, after |-> 0, offset |-> Int64Of(0), limit |-> Int64Of(0),
     i |-> 0, task |-> NilPtr, list |-> <<>>, err |-> "", n |-> 0, total |-> 0,
     completed |-> 0, incomplete |-> 0, dist |-> <<>>]

ErrValidation(e) == "validation failed: " \o e
ErrCapacity == "maximum tasks limit reached"
ErrNoUpdates == "no updates provided"
ErrNotFound == "task not found"
ErrMakeSlice == "panic: makeslice: cap out of range"
ErrSliceBounds == "panic: slice bounds out of range"
ErrNoShards == "memory storage shards are not properly initialized"
ErrShardNil == "memory storage shard is not properly initialized"

NoChain == [op |-> "", id |-> 0, obj |-> NoTask]

AtRest(t) == pc[t] \in {"idle", "done"}
Returned(t, op) == pc[t] = "done" /\ loc[t].op = op
Succeeded(t, op) == Returned(t, op) /\ loc[t].err = ""

\* sync.RWMutex
CanLock(i) == wlock[i] = 0 /\ rlock[i] = {}
CanRLock(i) == wlock[i] = 0

\* RUnlock as it would be if the read lock were never given back
RUnlockForgotten(readers, t) == readers

\* shard.mutex.RUnlock(), on the set of the shard's readers
RUnlock(readers, t) == readers \ {t}

\* thread t calls an operation whose locals start as l; calls is the caller's to set
Begin(t, first, l) ==
    /\ AtRest(t)
    /\ pc' = [pc EXCEPT ![t] = first]
    /\ loc' = [loc EXCEPT ![t] = l]
    /\ snap' = IF recording THEN [tasks |-> tasks, taskCount |-> taskCount] ELSE snap
    /\ chain' = IF recording /\ (\/ Succeeded(t, "Create") \/ Succeeded(t, "Delete")
                                  \/ (Succeeded(t, "Clear") /\ solo[t]))
                THEN [op |-> loc[t].op, id |-> loc[t].id, obj |-> loc[t].task.obj]
                ELSE NoChain
    /\ UNCHANGED <<tasks, wlock, rlock, maxTasks, shardCount, given, made, taskCount, clock, uuids,
                   recording, assigned, limiter, http, served, single, hashing>>
    /\ solo' = [u \in Threads |-> u = t /\ \A v \in Threads \ {t} : AtRest(v)]

\* ---- time
Tick ==
    /\ clock < 1 + MaxClock
    /\ clock' = clock + 1
    /\ UNCHANGED <<tasks, wlock, rlock, maxTasks, shardCount, given, made, taskCount, uuids, pc, loc,
                   recording, snap, chain, calls, assigned, solo, limiter, http, served, single, hashing>>

\* ---- Create
\* the capacity check as it would be with > for >=
LimitReachedLate(currentCount, max) == currentCount > max

\* the capacity check as it would be if it counted the record to come
LimitReachedEarly(currentCount, max) == currentCount + 1 >= max

\* currentCount >= ms.maxTasks
LimitReached(currentCount, max) == currentCount >= max

\* the calls of Create that have not drawn their uuid yet
CreatesBegun == Cardinality({u \in Threads : pc[u] \in {"create_check", "create_new"}})

CallCreate(t, name, status) ==
       Begin(t, "create_check", [Loc0 EXCEPT !.op = "Create",
                                 !.creq = [Name |-> name, Status |-> status]])

\* req.Validate(), then the atomic load of the counter and the capacity check
CreateCheck(t) ==
    /\ pc[t] = "create_check"
    /\ LET e == CreateValidate(loc[t].creq)
       IN  IF e # ""
           THEN /\ pc' = [pc EXCEPT ![t] = "done"]
                /\ loc' = [loc EXCEPT ![t].err = ErrValidation(e)]
           ELSE IF LimitReached(taskCount, maxTasks)
           THEN /\ pc' = [pc EXCEPT ![t] = "done"]
                /\ loc' = [loc EXCEPT ![t].err = ErrCapacity]
           ELSE /\ pc' = [pc EXCEPT ![t] = "create_new"]
                /\ loc' = loc
    /\ UNCHANGED <<tasks, wlock, rlock, maxTasks, shardCount, given, made, taskCount, clock, uuids,
                   recording, snap, chain, calls, assigned, solo, limiter, http, served, single, hashing>>

\* a generator that comes back to the ids it issued before
NewUUIDRepeating(issued) == (issued % 2) + 1

\* uuid.New().String(), issued ids having been drawn before: the generator is
\* taken not to repeat itself, as the store takes it (it does not look the id up)
NewUUID(issued) == issued + 1

\* taskID := uuid.New().String(); task := models.NewTask(..); task.ID = taskID
CreateNew(t) ==
    /\ pc[t] = "create_new"
    /\ uuids' = uuids + 1
    /\ loc' = [loc EXCEPT ![t].id = NewUUID(uuids),
                          ![t].task = AddrOf(NewTask(loc[t].creq.Name, loc[t].creq.Status,
                                                     clock, NewUUID(uuids)))]
    /\ pc' = [pc EXCEPT ![t] = "create_lock"]
    /\ UNCHANGED <<tasks, wlock, rlock, maxTasks, shardCount, given, made, taskCount, clock,
                   recording, snap, chain, calls, assigned, solo, limiter, http, served, single, hashing>>

CreateLock(t) ==
    /\ pc[t] = "create_lock"
    /\ CanLock(ShardIndex(loc[t].id))
    /\ wlock' = [wlock EXCEPT ![ShardIndex(loc[t].id)] = t]
    /\ pc' = [pc EXCEPT ![t] = "create_store"]
    /\ UNCHANGED <<tasks, rlock, maxTasks, shardCount, given, made, taskCount, clock, uuids, loc,
                   recording, snap, chain, calls, assigned, solo, limiter, http, served, single, hashing>>

\* shard.tasks[taskID] = task; shard.mutex.Unlock()
CreateStore(t) ==
    /\ pc[t] = "create_store"
    /\ LET i == ShardIndex(loc[t].id)
       IN  /\ tasks' = [tasks EXCEPT ![i] = MapPut(@, loc[t].id, loc[t].task.obj)]
           /\ wlock' = [wlock EXCEPT ![i] = 0]
    /\ loc' = [Detach({loc[t].id}) EXCEPT ![t].task.ref = loc[t].id]
    /\ pc' = [pc EXCEPT ![t] = "create_count"]
    /\ UNCHANGED <<rlock, maxTasks, shardCount, given, made, taskCount, clock, uuids,
                   recording, snap, chain, calls, assigned, solo, limiter, http, served, single, hashing>>

\* atomic.AddInt64(&ms.taskCount, 1); taskCopy := *task; return &taskCopy, nil
CreateCount(t) ==
    /\ pc[t] = "create_count"
    /\ taskCount' = taskCount + 1
    /\ loc' = [loc EXCEPT ![t].task = CopyOf(loc[t].task)]
    /\ assigned' = [assigned EXCEPT ![CopyOf(loc[t].task).obj.ID] = @ + 1]
    /\ pc' = [pc EXCEPT ![t] = "done"]
    /\ UNCHANGED <<tasks, wlock, rlock, maxTasks, shardCount, given, made, clock, uuids,
                   recording, snap, chain, calls, solo, limiter, http, served, single, hashing>>

\* ---- GetByID
CallGetByID(t, id) ==
    Begin(t, "get_lock", [Loc0 EXCEPT !.op = "GetByID", !.id = id])

GetLock(t) ==
    /\ pc[t] = "get_lock"
    /\ CanRLock(ShardIndex(loc[t].id))
    /\ rlock' = [rlock EXCEPT ![ShardIndex(loc[t].id)] = @ \cup {t}]
    /\ pc' = [pc EXCEPT ![t] = "get_read"]
    /\ UNCHANGED <<tasks, wlock, maxTasks, shardCount, given, made, taskCount, clock, uuids, loc,
                   recording, snap, chain, calls, assigned, solo, limiter, http, served, single, hashing>>

GetRead(t) ==
    /\ pc[t] = "get_read"
    /\ LET i == ShardIndex(loc[t].id)
       IN  /\ loc' = IF loc[t].id \in DOMAIN tasks[i]
                     THEN [loc EXCEPT ![t].task = CopyOf(SlotPtr(i, loc[t].id))]
                     ELSE [loc EXCEPT ![t].err = ErrNotFound]
           /\ rlock' = [rlock EXCEPT ![i] = RUnlock(@, t)]
    /\ pc' = [pc EXCEPT ![t] = "done"]
    /\ UNCHANGED <<tasks, wlock, maxTasks, shardCount, given, made, taskCount, clock, uuids,
                   recording, snap, chain, calls, assigned, solo, limiter, http, served, single, hashing>>

\* ---- Update
CallUpdate(t, id, req) ==
    Begin(t, "update_check", [Loc0 EXCEPT !.op = "Update", !.id = id, !.ureq = req])

\* req.Validate() and req.HasUpdates()
UpdateCheck(t) ==
    /\ pc[t] = "update_check"
    /\ LET e == UpdateValidate(loc[t].ureq)
       IN  IF e # ""
           THEN /\ pc' = [pc EXCEPT ![t] = "done"]
                /\ loc' = [loc EXCEPT ![t].err = ErrValidation(e)]
           ELSE IF ~HasUpdates(loc[t].ureq)
           THEN /\ pc' = [pc EXCEPT ![t] = "done"]
                /\ loc' = [loc EXCEPT ![t].err = ErrNoUpdates]
           ELSE /\ pc' = [pc EXCEPT ![t] = "update_lock"]
                /\ loc' = loc
    /\ UNCHANGED <<tasks, wlock, rlock, maxTasks, shardCount, given, made, taskCount, clock, uuids,
                   recording, snap, chain, calls, assigned, solo, limiter, http, served, single, hashing>>

UpdateLock(t) ==
    /\ pc[t] = "update_lock"
    /\ CanLock(ShardIndex(loc[t].id))
    /\ wlock' = [wlock EXCEPT ![ShardIndex(loc[t].id)] = t]
    /\ pc' = [pc EXCEPT ![t] = "update_apply"]
    /\ UNCHANGED <<tasks, rlock, maxTasks, shardCount, given, made, taskCount, clock, uuids, loc,
                   recording, snap, chain, calls, assigned, solo, limiter, http, served, single, hashing>>

\* the critical section of Update and the deferred Unlock
UpdateApply(t) ==
    /\ pc[t] = "update_apply"
    /\ LET i == ShardIndex(loc[t].id)
           k == loc[t].id
       IN  /\ IF k \in DOMAIN tasks[i]
              THEN LET updatedTask == ApplyTo(loc[t].ureq, SlotPtr(i, k).obj, clock)
                   IN  /\ tasks' = [tasks EXCEPT ![i] = MapPut(@, k, updatedTask)]
                       /\ loc' = [Detach({k}) EXCEPT ![t].task =
                                     CopyOf([nil |-> FALSE, ref |-> k, obj |-> updatedTask])]
              ELSE /\ tasks' = tasks
                   /\ loc' = [loc EXCEPT ![t].err = ErrNotFound]
           /\ wlock' = [wlock EXCEPT ![i] = 0]
    /\ pc' = [pc EXCEPT ![t] = "done"]
    /\ UNCHANGED <<rlock, maxTasks, shardCount, given, made, taskCount, clock, uuids,
                   recording, snap, chain, calls, assigned, solo, limiter, http, served, single, hashing>>

\* ---- Delete
CallDelete(t, id) ==
    Begin(t, "delete_lock", [Loc0 EXCEPT !.op = "Delete", !.id = id])

DeleteLock(t) ==
    /\ pc[t] = "delete_lock"
    /\ CanLock(ShardIndex(loc[t].id))
    /\ wlock' = [wlock EXCEPT ![ShardIndex(loc[t].id)] = t]
    /\ pc' = [pc EXCEPT ![t] = "delete_apply"]
    /\ UNCHANGED <<tasks, rlock, maxTasks, shardCount, given, made, taskCount, clock, uuids, loc,
                   recording, snap, chain, calls, assigned, solo, limiter, http, served, single, hashing>>

\* the critical section of Delete, the atomic decrement in it, the deferred Unlock
DeleteApply(t) ==
    /\ pc[t] = "delete_apply"
    /\ LET i == ShardIndex(loc[t].id)
           k == loc[t].id
       IN  /\ IF k \in DOMAIN tasks[i]
              THEN /\ tasks' = [tasks EXCEPT ![i] = MapDel(@, k)]
                   /\ taskCount' = taskCount - 1
                   /\ loc' = Detach({k})
              ELSE /\ tasks' = tasks
                   /\ taskCount' = taskCount
                   /\ loc' = [loc EXCEPT ![t].err = ErrNotFound]
           /\ wlock' = [wlock EXCEPT ![i] = 0]
    /\ pc' = [pc EXCEPT ![t] = "done"]
    /\ UNCHANGED <<rlock, maxTasks, shardCount, given, made, clock, uuids,
                   recording, snap, chain, calls, assigned, solo, limiter, http, served, single, hashing>>

\* ---- Count
CallCount(t) == Begin(t, "count_load", [Loc0 EXCEPT !.op = "Count"])

CountLoad(t) ==
    /\ pc[t] = "count_load"
    /\ loc' = [loc EXCEPT ![t].n = taskCount]
    /\ pc' = [pc EXCEPT ![t] = "done"]
    /\ UNCHANGED <<tasks, wlock, rlock, maxTasks, shardCount, given, made, taskCount, clock, uuids,
                   recording, snap, chain, calls, assigned, solo, limiter, http, served, single, hashing>>

\* ---- Clear
CallClear(t) == Begin(t, "clear_lock", [Loc0 EXCEPT !.op = "Clear"])

ClearLock(t) ==
    /\ pc[t] = "clear_lock"
    /\ CanLock(loc[t].i)
    /\ wlock' = [wlock EXCEPT ![loc[t].i] = t]
    /\ pc' = [pc EXCEPT ![t] = "clear_reset"]
    /\ UNCHANGED <<tasks, rlock, maxTasks, shardCount, given, made, taskCount, clock, uuids, loc,
                   recording, snap, chain, calls, assigned, solo, limiter, http, served, single, hashing>>

\* shard.tasks = make(map[string]*models.Task); shard.mutex.Unlock()
ClearReset(t) ==
    /\ pc[t] = "clear_reset"
    /\ LET i == loc[t].i
       IN  /\ tasks' = [tasks EXCEPT ![i] = MakeTaskMap.m]
           /\ made' = [made EXCEPT ![i] = ~MakeTaskMap.nil]
           /\ wlock' = [wlock EXCEPT ![i] = 0]
           /\ loc' = [Detach(DOMAIN tasks[i]) EXCEPT ![t].i = i + 1]
           /\ pc' = [pc EXCEPT ![t] = IF i + 1 = shardCount THEN "clear_count"
                                      ELSE "clear_lock"]
    /\ UNCHANGED <<rlock, maxTasks, shardCount, given, taskCount, clock, uuids,
                   recording, snap, chain, calls, assigned, solo, limiter, http, served, single, hashing>>

\* a store to the counter that leaves it as it was
StoreSkipped(old, val) == old

\* atomic.StoreInt64(addr, val), on the value old at addr
StoreInt64(old, val) == val

\* atomic.StoreInt64(&ms.taskCount, 0)
ClearCount(t) ==
    /\ pc[t] = "clear_count"
    /\ taskCount' = StoreInt64(taskCount, 0)
    /\ pc' = [pc EXCEPT ![t] = "done"]
    /\ UNCHANGED <<tasks, wlock, rlock, maxTasks, shardCount, given, made, clock, uuids, loc,
                   recording, snap, chain, calls, assigned, solo, limiter, http, served, single, hashing>>

\* ---- GetAll, GetTasksByStatus, GetTasksCreatedAfter, GetTasksPaginated
ScanOps == {"GetAll", "GetTasksByStatus", "GetTasksCreatedAfter", "GetTasksPaginated"}

CallGetAll(t) == Begin(t, "scan_start", [Loc0 EXCEPT !.op = "GetAll"])

CallGetTasksByStatus(t, status) ==
    Begin(t, "scan_start", [Loc0 EXCEPT !.op = "GetTasksByStatus", !.status = status])

CallGetTasksCreatedAfter(t, after) ==
    Begin(t, "scan_start", [Loc0 EXCEPT !.op = "GetTasksCreatedAfter", !.after = after])

CallGetTasksPaginated(t, offset, limit) ==
    Begin(t, "scan_start", [Loc0 EXCEPT !.op = "GetTasksPaginated",
                            !.offset = offset, !.limit = limit])

\* make([]*models.Task, 0, atomic.LoadInt64(&ms.taskCount)) in GetAll and
\* GetTasksPaginated: a negative capacity panics; the other two declare a nil slice
ScanStart(t) ==
    /\ pc[t] = "scan_start"
    /\ IF loc[t].op \in {"GetAll", "GetTasksPaginated"} /\ taskCount < 0
       THEN /\ pc' = [pc EXCEPT ![t] = "done"]
            /\ loc' = [loc EXCEPT ![t].err = ErrMakeSlice]
       ELSE /\ pc' = [pc EXCEPT ![t] = "scan_lock"]
            /\ loc' = loc
    /\ UNCHANGED <<tasks, wlock, rlock, maxTasks, shardCount, given, made, taskCount, clock, uuids,
                   recording, snap, chain, calls, assigned, solo, limiter, http, served, single, hashing>>

ScanLock(t) ==
    /\ pc[t] = "scan_lock"
    /\ CanRLock(loc[t].i)
    /\ rlock' = [rlock EXCEPT ![loc[t].i] = @ \cup {t}]
    /\ pc' = [pc EXCEPT ![t] = "scan_read"]
    /\ UNCHANGED <<tasks, wlock, maxTasks, shardCount, given, made, taskCount, clock, uuids, loc,
                   recording, snap, chain, calls, assigned, solo, limiter, http, served, single, hashing>>

\* the condition under which the loop body appends the task
Keeps(l, task) ==
    CASE l.op = "GetTasksByStatus" -> task.Status = l.status
      [] l.op = "GetTasksCreatedAfter" -> task.CreatedAt > l.after
      [] OTHER -> TRUE

\* the copies one pass over shard i appends, ranging over its map in this order
Collected(l, i, order) ==
    LET kept == SelectSeq(order, LAMBDA k : Keeps(l, tasks[i][k]))
    IN  [j \in 1..Len(kept) |-> CopyOf(SlotPtr(i, kept[j]))]

\* what GetTasksPaginated returns of allTasks: the empty page when offset >=
\* total, else allTasks[offset:end], end := offset + limit, lowered to total when
\* above it; the slice expression panics unless 0 <= offset <= end
PageOf(all, offset, limit) ==
    LET total == Int64Of(Len(all))
        sum == Add64(offset, limit)
        end == IF Less64(total, sum) THEN total ELSE sum
    IN  IF ~Less64(offset, total) THEN [err |-> "", list |-> <<>>]
        ELSE IF IsNeg64(offset) \/ Less64(end, offset)
            THEN [err |-> ErrSliceBounds, list |-> <<>>]
        ELSE [err |-> "", list |-> SubSeq(all, Small64(offset) + 1, Small64(end))]

\* the locals when the loop over the shards has ended
ScanResult(l, all) ==
    IF l.op = "GetTasksPaginated"
    THEN [l EXCEPT !.list = PageOf(all, l.offset, l.limit).list,
                   !.err = PageOf(all, l.offset, l.limit).err,
                   !.total = IF PageOf(all, l.offset, l.limit).err = "" THEN Len(all) ELSE 0]
    ELSE [l EXCEPT !.list = all]

\* the range over shard i's map, the RUnlock, and the return after the last shard
ScanRead(t) ==
    /\ pc[t] = "scan_read"
    /\ \E order \in Orders(DOMAIN tasks[loc[t].i]) :
          LET i == loc[t].i
              all == loc[t].list \o Collected(loc[t], i, order)
          IN  /\ rlock' = [rlock EXCEPT ![i] = RUnlock(@, t)]
              /\ IF i + 1 = shardCount
                 THEN /\ loc' = [loc EXCEPT ![t] = ScanResult([loc[t] EXCEPT !.i = i + 1], all)]
                      /\ pc' = [pc EXCEPT ![t] = "done"]
                 ELSE /\ loc' = [loc EXCEPT ![t].list = all, ![t].i = i + 1]
                      /\ pc' = [pc EXCEPT ![t] = "scan_lock"]
    /\ UNCHANGED <<tasks, wlock, maxTasks, shardCount, given, made, taskCount, clock, uuids,
                   recording, snap, chain, calls, assigned, solo, limiter, http, served, single, hashing>>

\* ---- GetStats
CallGetStats(t) == Begin(t, "stats_lock", [Loc0 EXCEPT !.op = "GetStats"])

StatsLock(t) ==
    /\ pc[t] = "stats_lock"
    /\ CanRLock(loc[t].i)
    /\ rlock' = [rlock EXCEPT ![loc[t].i] = @ \cup {t}]
    /\ pc' = [pc EXCEPT ![t] = "stats_read"]
    /\ UNCHANGED <<tasks, wlock, maxTasks, shardCount, given, made, taskCount, clock, uuids, loc,
                   recording, snap, chain, calls, assigned, solo, limiter, http, served, single, hashing>>

\* the range over shard i's map that counts the two statuses, and the RUnlock
StatsRead(t) ==
    /\ pc[t] = "stats_read"
    /\ LET i == loc[t].i
           done == {k \in DOMAIN tasks[i] : tasks[i][k].Status = TaskCompleted}
       IN  /\ rlock' = [rlock EXCEPT ![i] = RUnlock(@, t)]
           /\ loc' = [loc EXCEPT ![t].completed = @ + Cardinality(done),
                                 ![t].incomplete = @ + Cardinality(DOMAIN tasks[i] \ done),
                                 ![t].i = i + 1]
           /\ pc' = [pc EXCEPT ![t] = IF i + 1 = shardCount THEN "stats_load"
                                      ELSE "stats_lock"]
    /\ UNCHANGED <<tasks, wlock, maxTasks, shardCount, given, made, taskCount, clock, uuids,
                   recording, snap, chain, calls, assigned, solo, limiter, http, served, single, hashing>>

\* currentCount := atomic.LoadInt64(&ms.taskCount); return StorageStats{...}
StatsLoad(t) ==
    /\ pc[t] = "stats_load"
    /\ loc' = [loc EXCEPT ![t].total = taskCount]
    /\ pc' = [pc EXCEPT ![t] = "done"]
    /\ UNCHANGED <<tasks, wlock, rlock, maxTasks, shardCount, given, made, taskCount, clock,
                   uuids, recording, snap, chain, calls, assigned, solo, limiter, http, served, single, hashing>>

\* ---- GetMaxTasks
CallGetMaxTasks(t) == Begin(t, "max_read", [Loc0 EXCEPT !.op = "GetMaxTasks"])

MaxRead(t) ==
    /\ pc[t] = "max_read"
    /\ loc' = [loc EXCEPT ![t].n = maxTasks]
    /\ pc' = [pc EXCEPT ![t] = "done"]
    /\ UNCHANGED <<tasks, wlock, rlock, maxTasks, shardCount, given, made, taskCount, clock,
                   uuids, recording, snap, chain, calls, assigned, solo, limiter, http, served, single, hashing>>

\* ---- GetUsage
CallGetUsage(t) == Begin(t, "usage_load", [Loc0 EXCEPT !.op = "GetUsage"])

\* currentCount := atomic.LoadInt64(&ms.taskCount)
UsageLoad(t) ==
    /\ pc[t] = "usage_load"
    /\ loc' = [loc EXCEPT ![t].n = taskCount]
    /\ pc' = [pc EXCEPT ![t] = "usage_lock"]
    /\ UNCHANGED <<tasks, wlock, rlock, maxTasks, shardCount, given, made, taskCount, clock,
                   uuids, recording, snap, chain, calls, assigned, solo, limiter, http, served, single, hashing>>

UsageLock(t) ==
    /\ pc[t] = "usage_lock"
    /\ CanRLock(loc[t].i)
    /\ rlock' = [rlock EXCEPT ![loc[t].i] = @ \cup {t}]
    /\ pc' = [pc EXCEPT ![t] = "usage_read"]
    /\ UNCHANGED <<tasks, wlock, maxTasks, shardCount, given, made, taskCount, clock, uuids, loc,
                   recording, snap, chain, calls, assigned, solo, limiter, http, served, single, hashing>>

\* "available": ms.maxTasks - int(currentCount)
Available(max, currentCount) == max - currentCount

\* shardDistribution[i] = len(shard.tasks), the RUnlock, and the map returned
\* after the last shard: n is "current_tasks", total is "available"
UsageRead(t) ==
    /\ pc[t] = "usage_read"
    /\ LET i == loc[t].i
       IN  /\ rlock' = [rlock EXCEPT ![i] = RUnlock(@, t)]
           /\ loc' = [loc EXCEPT ![t].dist = Append(@, Cardinality(DOMAIN tasks[i])),
                                 ![t].i = i + 1,
                                 ![t].total = IF i + 1 = shardCount
                                              THEN Available(maxTasks, loc[t].n) ELSE @]
           /\ pc' = [pc EXCEPT ![t] = IF i + 1 = shardCount THEN "done" ELSE "usage_lock"]
    /\ UNCHANGED <<tasks, wlock, maxTasks, shardCount, given, made, taskCount, clock, uuids,
                   recording, snap, chain, calls, assigned, solo, limiter, http, served, single, hashing>>

\* ---- HealthCheck
CallHealthCheck(t) == Begin(t, "health_start", [Loc0 EXCEPT !.op = "HealthCheck"])

\* if len(ms.shards) == 0
HealthStart(t) ==
    /\ pc[t] = "health_start"
    /\ IF DOMAIN tasks = {}
       THEN /\ pc' = [pc EXCEPT ![t] = "done"]
            /\ loc' = [loc EXCEPT ![t].err = ErrNoShards]
       ELSE /\ pc' = [pc EXCEPT ![t] = "health_read"]
            /\ loc' = loc
    /\ UNCHANGED <<tasks, wlock, rlock, maxTasks, shardCount, given, made, taskCount, clock,
                   uuids, recording, snap, chain, calls, assigned, solo, limiter, http, served, single, hashing>>

\* what a read of shard i's map field that takes no lock may find to be nil: the
\* field as it is, or as a Clear that is at its write of the field leaves it
SeenNil(i) ==
    {~made[i]} \cup {MakeTaskMap.nil : u \in {v \in Threads : pc[v] = "clear_reset"
                                                              /\ loc[v].i = i}}

\* if shard == nil || shard.tasks == nil, for shard i, without its lock
HealthRead(t) ==
    /\ pc[t] = "health_read"
    /\ \E isNil \in SeenNil(loc[t].i) :
          IF isNil
          THEN /\ pc' = [pc EXCEPT ![t] = "done"]
               /\ loc' = [loc EXCEPT ![t].err = ErrShardNil]
          ELSE /\ pc' = [pc EXCEPT ![t] = IF loc[t].i + 1 = shardCount THEN "done"
                                          ELSE "health_read"]
               /\ loc' = [loc EXCEPT ![t].i = @ + 1]
    /\ UNCHANGED <<tasks, wlock, rlock, maxTasks, shardCount, given, made, taskCount, clock,
                   uuids, recording, snap, chain, calls, assigned, solo, limiter, http, served, single, hashing>>

\* ---- the caller writes to a record an operation handed to it
\* what the caller stores into the struct: a changed name, status, id and times
Scribbled(task) ==
    { [task EXCEPT !.Name = "changed"],
      [task EXCEPT !.Status = 1 - task.Status],
      [task EXCEPT !.ID = 0],
      [task EXCEPT !.CreatedAt = 0, !.UpdatedAt = 0] }

\* *p = v, for a pointer p of thread t: the write lands in the struct p points to,
\* which is the stored record when p is in a map slot
WriteThrough(t, p, v, newLocT) ==
    /\ IF p.ref # 0
       THEN /\ tasks' = [tasks EXCEPT ![ShardIndex(p.ref)] = MapPut(@, p.ref, v)]
            /\ loc' = [u \in Threads |->
                         LET l == IF u = t THEN newLocT ELSE loc[u]
                             sync(q) == IF q.ref = p.ref THEN [q EXCEPT !.obj = v] ELSE q
                         IN  [l EXCEPT !.task = sync(@),
                                       !.list = [j \in DOMAIN @ |-> sync(@[j])]]]
       ELSE /\ tasks' = tasks
            /\ loc' = [loc EXCEPT ![t] = newLocT]
    /\ UNCHANGED <<wlock, rlock, maxTasks, shardCount, given, made, taskCount, clock, uuids, pc,
                   recording, snap, chain, calls, assigned, solo, limiter, http, served, single, hashing>>

MutateTask(t) ==
    /\ pc[t] = "done"
    /\ ~loc[t].task.nil
    /\ \E v \in Scribbled(loc[t].task.obj) :
          WriteThrough(t, loc[t].task, v, [loc[t] EXCEPT !.task.obj = v])

MutateListed(t) ==
    /\ pc[t] = "done"
    /\ \E j \in DOMAIN loc[t].list :
          \E v \in Scribbled(loc[t].list[j].obj) :
             WriteThrough(t, loc[t].list[j], v, [loc[t] EXCEPT !.list[j].obj = v])

\* ---- RateLimiter
\* the variables of the store, which the rate limiter leaves alone
storeVars == <<tasks, wlock, rlock, maxTasks, shardCount, given, made, taskCount, uuids, pc, loc,
               recording, snap, chain, calls, assigned, solo>>

Clients == {"ip1", "ip2"}
ApiKeys == {"k"}

\* a map entry that is absent, and the RequestRecord struct
NoRecord == [exists |-> FALSE, Count |-> 0, FirstSeen |-> 0, LastSeen |-> 0]

\* no request: the thread serves none
NoRequest ==
    [h |-> "", ip |-> "", key |-> "", now |-> 0, id |-> 0, status |-> 0,
     offset |-> <<>>, limit |-> <<>>, path |-> "", method |-> ""]

\* NewRateLimiter(config): mu is "" when free, else who holds it
NewRateLimiter(config) ==
    [config |-> config,
     ipRecords |-> [c \in Clients |-> NoRecord],
     keyRecords |-> [k \in ApiKeys |-> NoRecord],
     mu |-> ""]

\* rl.checkLimit: whether the request is allowed, and the map as it leaves it
checkLimit(identifier, limit, now, records, WindowSize) ==
    LET record == records[identifier]
    IN  IF ~record.exists
        THEN [ok |-> TRUE,
              records |-> [records EXCEPT ![identifier] =
                              [exists |-> TRUE, Count |-> 1, FirstSeen |-> now, LastSeen |-> now]]]
        ELSE IF now - record.FirstSeen > WindowSize
        THEN [ok |-> TRUE,
              records |-> [records EXCEPT ![identifier] =
                              [exists |-> TRUE, Count |-> 1, FirstSeen |-> now, LastSeen |-> now]]]
        ELSE IF record.Count >= limit
        THEN [ok |-> FALSE, records |-> records]
        ELSE [ok |-> TRUE,
              records |-> [records EXCEPT ![identifier].Count = @ + 1,
                                          ![identifier].LastSeen = now]]

\* a request reaches the middleware: clientIP, apiKey and now := time.Now()
Allow(t, ip, key) ==
    /\ http[t].h \in {"", "responded"}
    /\ Len(served) + Cardinality({u \in Threads : http[u].h \in {"allow_lock", "allow_check"}})
          < MaxRequests
    /\ http' = [http EXCEPT ![t] = [NoRequest EXCEPT !.h = "allow_lock", !.ip = ip, !.key = key,
                                                   !.now = clock]]
    /\ UNCHANGED <<storeVars, clock, limiter, served, single, hashing>>

\* rl.mu.Lock()
AllowLock(t) ==
    /\ http[t].h = "allow_lock"
    /\ limiter.mu = ""
    /\ limiter' = [limiter EXCEPT !.mu = "Allow"]
    /\ http' = [http EXCEPT ![t].h = "allow_check"]
    /\ UNCHANGED <<storeVars, clock, served, single, hashing>>

\* the two checkLimit calls, the deferred Unlock, and the middleware's answer:
\* 429 and Abort when Allow returned false, else c.Next() (status 0 here)
AllowCheck(t) ==
    /\ http[t].h = "allow_check"
    /\ LET r == http[t]
           W == limiter.config.WindowSize
           byIP == checkLimit(r.ip, limiter.config.PerIP, r.now, limiter.ipRecords, W)
           byKey == IF byIP.ok /\ r.key # ""
                    THEN checkLimit(r.key, limiter.config.PerAPIKey, r.now,
                                    limiter.keyRecords, W)
                    ELSE [ok |-> byIP.ok, records |-> limiter.keyRecords]
       IN  /\ limiter' = [limiter EXCEPT !.ipRecords = byIP.records,
                                         !.keyRecords = byKey.records,
                                         !.mu = ""]
           /\ http' = [http EXCEPT ![t].h = "responded",
                                 ![t].status = IF byKey.ok THEN 0 ELSE 429]
           /\ served' = Append(served,
                  [ip |-> r.ip, key |-> r.key, now |-> r.now, ok |-> byKey.ok,
                   ipok |-> byIP.ok,
                   win |-> byIP.records[r.ip].FirstSeen,
                   kwin |-> IF r.key = "" THEN 0 ELSE byKey.records[r.key].FirstSeen])
    /\ UNCHANGED <<storeVars, clock, single, hashing>>

\* the records cleanup keeps: those seen within two windows of now
Unexpired(records, now, expiry) ==
    [k \in DOMAIN records |->
        IF records[k].exists /\ now - records[k].LastSeen > expiry THEN NoRecord
        ELSE records[k]]

\* the ticker fires and cleanup takes the lock
CleanupLock ==
    /\ limiter.mu = ""
    /\ limiter' = [limiter EXCEPT !.mu = "cleanup"]
    /\ UNCHANGED <<storeVars, clock, http, served, single, hashing>>

\* cleanup: now := time.Now(), the two loops, the deferred Unlock
Cleanup ==
    /\ limiter.mu = "cleanup"
    /\ limiter' = [limiter EXCEPT
          !.ipRecords = Unexpired(@, clock, limiter.config.WindowSize * 2),
          !.keyRecords = Unexpired(@, clock, limiter.config.WindowSize * 2),
          !.mu = ""]
    /\ UNCHANGED <<storeVars, clock, http, served, single, hashing>>

\* time passes
LimiterTick ==
    /\ clock < MaxLimiterClock
    /\ clock' = clock + 1
    /\ UNCHANGED <<storeVars, limiter, http, served, single, hashing>>

\* ---- SmartRateLimit
\* getCustomLimit(path, method, baseConfig)
getCustomLimit(path, method, baseConfig) ==
    IF path = "/health" \/ path = "/api/v1/health" THEN baseConfig.PerIP * 5
    ELSE IF method = "GET" THEN baseConfig.PerIP
    ELSE IF method \in {"POST", "PUT", "DELETE"} THEN baseConfig.PerIP \div 2
    ELSE baseConfig.PerIP

\* a request reaches the middleware of SmartRateLimit: path, method, and in
\* allowWithCustomLimit clientIP, apiKey and now := time.Now()
SmartRateLimit(t, ip, key, path, method) ==
    /\ http[t].h \in {"", "responded"}
    /\ Len(served) + Cardinality({u \in Threads : http[u].h \in {"custom_lock", "custom_check"}})
          < MaxRequests
    /\ http' = [http EXCEPT ![t] = [NoRequest EXCEPT !.h = "custom_lock", !.ip = ip, !.key = key,
                                                   !.now = clock, !.path = path,
                                                   !.method = method]]
    /\ UNCHANGED <<storeVars, clock, limiter, served, single, hashing>>

\* rl.mu.Lock() of allowWithCustomLimit
CustomLock(t) ==
    /\ http[t].h = "custom_lock"
    /\ limiter.mu = ""
    /\ limiter' = [limiter EXCEPT !.mu = "allowWithCustomLimit"]
    /\ http' = [http EXCEPT ![t].h = "custom_check"]
    /\ UNCHANGED <<storeVars, clock, served, single, hashing>>

\* allowWithCustomLimit: the IP check with the custom limit, the check of the
\* API key with PerAPIKey, the deferred Unlock; then the middleware's answer,
\* 429 and Abort or c.Next()
allowWithCustomLimit(t) ==
    /\ http[t].h = "custom_check"
    /\ LET r == http[t]
           W == limiter.config.WindowSize
           customLimit == getCustomLimit(r.path, r.method, limiter.config)
           byIP == checkLimit(r.ip, customLimit, r.now, limiter.ipRecords, W)
           byKey == IF byIP.ok /\ r.key # ""
                    THEN checkLimit(r.key, limiter.config.PerAPIKey, r.now,
                                    limiter.keyRecords, W)
                    ELSE [ok |-> byIP.ok, records |-> limiter.keyRecords]
       IN  /\ limiter' = [limiter EXCEPT !.ipRecords = byIP.records,
                                         !.keyRecords = byKey.records,
                                         !.mu = ""]
           /\ http' = [http EXCEPT ![t].h = "responded",
                                 ![t].status = IF byKey.ok THEN 0 ELSE 429]
           /\ served' = Append(served,
                  [ip |-> r.ip, key |-> r.key, now |-> r.now, ok |-> byKey.ok,
                   ipok |-> byIP.ok,
                   win |-> byIP.records[r.ip].FirstSeen,
                   kwin |-> IF r.key = "" THEN 0 ELSE byKey.records[r.key].FirstSeen,
                   path |-> r.path, method |-> r.method])
    /\ UNCHANGED <<storeVars, clock, single, hashing>>

\* ---- TaskHandler.DeleteTask
\* contains(err.Error(), "not found"): of the errors of the store only the
\* not-found error has these words
IsNotFound(e) == e = ErrNotFound

\* the thread serves no request
Free(t) == http[t].h \in {"", "responded"} /\ AtRest(t)

\* DELETE /tasks/:id arrives: id := c.Param("id"), 400 if it is empty (id 0);
\* calls counts the calls the handler has made to the store
DeleteTask(t, id) ==
    /\ Free(t)
    /\ http' = [http EXCEPT ![t] = IF id = 0
                   THEN [NoRequest EXCEPT !.h = "responded", !.status = 400]
                   ELSE [NoRequest EXCEPT !.h = "delete", !.id = id]]
    /\ calls' = [calls EXCEPT ![t] = 0]
    /\ UNCHANGED <<tasks, wlock, rlock, maxTasks, shardCount, given, made, taskCount, clock,
                   uuids, pc, loc, recording, snap, chain, assigned, solo, limiter, served, single, hashing>>

\* _, err := h.storage.GetByID(id)
DeleteLookup(t) ==
    /\ http[t].h = "delete"
    /\ calls[t] = 0
    /\ CallGetByID(t, http[t].id)
    /\ calls' = [calls EXCEPT ![t] = 1]

\* if err != nil: 404 when it is a not-found error, else 500
DeleteMissing(t) ==
    /\ http[t].h = "delete"
    /\ calls[t] = 1
    /\ Returned(t, "GetByID")
    /\ loc[t].err # ""
    /\ http' = [http EXCEPT ![t].h = "responded",
                            ![t].status = IF IsNotFound(loc[t].err) THEN 404 ELSE 500]
    /\ UNCHANGED <<storeVars, clock, limiter, served, single, hashing>>

\* err = h.storage.Delete(id)
DeleteRemove(t) ==
    /\ http[t].h = "delete"
    /\ calls[t] = 1
    /\ Succeeded(t, "GetByID")
    /\ CallDelete(t, http[t].id)
    /\ calls' = [calls EXCEPT ![t] = 2]

\* if err != nil: 500, else 200
DeleteRespond(t) ==
    /\ http[t].h = "delete"
    /\ calls[t] = 2
    /\ Returned(t, "Delete")
    /\ http' = [http EXCEPT ![t].h = "responded",
                            ![t].status = IF loc[t].err # "" THEN 500 ELSE 200]
    /\ UNCHANGED <<storeVars, clock, limiter, served, single, hashing>>

\* ---- TaskHandler.GetTasksPaginated
\* a query parameter is the sequence of the ASCII codes of its characters
Minus == 45
Plus == 43
Digit0 == 48
Digit9 == 57

\* -a of Go, on the limbs
Neg64(a) == Add64(<<Limb - 1 - a[1], Limb - 1 - a[2], Limb - 1 - a[3], Limb - 1 - a[4]>>,
                  Int64Of(1))

\* 10 * a + d on the limbs of a magnitude, and whether it has left 0 .. 2^63
TimesTenPlus(a, d) ==
    LET c4 == (a[4] * 10) + d
        c3 == (a[3] * 10) + (c4 \div Limb)
        c2 == (a[2] * 10) + (c3 \div Limb)
        c1 == (a[1] * 10) + (c2 \div Limb)
    IN  [over |-> c1 > Limb \div 2
                  \/ (c1 = Limb \div 2 /\ (c2 % Limb) + (c3 % Limb) + (c4 % Limb) > 0),
         val |-> <<c1 % Limb, c2 % Limb, c3 % Limb, c4 % Limb>>]

\* the magnitude the digits of s from the i-th on add to acc; err when one of
\* them is no digit or the magnitude is above 2^63
RECURSIVE MagnitudeFrom(_, _, _)
MagnitudeFrom(s, i, acc) ==
    IF i > Len(s) THEN [err |-> FALSE, val |-> acc]
    ELSE IF s[i] < Digit0 \/ s[i] > Digit9 THEN [err |-> TRUE, val |-> Int64Of(0)]
    ELSE LET next == TimesTenPlus(acc, s[i] - Digit0)
         IN  IF next.over THEN [err |-> TRUE, val |-> Int64Of(0)]
             ELSE MagnitudeFrom(s, i + 1, next.val)

\* strconv.Atoi: an optional sign, then one digit or more; an error for
\* anything else and for a value outside -2^63 .. 2^63 - 1
Atoi(s) ==
    LET signed == Len(s) > 0 /\ s[1] \in {Minus, Plus}
        first == IF signed THEN 2 ELSE 1
        m == MagnitudeFrom(s, first, Int64Of(0))
    IN  IF first > Len(s) \/ m.err THEN [err |-> TRUE, val |-> Int64Of(0)]
        ELSE IF signed /\ s[1] = Minus THEN [err |-> FALSE, val |-> Neg64(m.val)]
        ELSE IF IsNeg64(m.val) THEN [err |-> TRUE, val |-> Int64Of(0)]
        ELSE [err |-> FALSE, val |-> m.val]

\* the parameters served
Ascii(digits) == [i \in DOMAIN digits |-> Digit0 + digits[i]]
MaxInt64Digits == <<9, 2, 2, 3, 3, 7, 2, 0, 3, 6, 8, 5, 4, 7, 7, 5, 8, 0, 7>>
PastInt64Digits == <<9, 2, 2, 3, 3, 7, 2, 0, 3, 6, 8, 5, 4, 7, 7, 5, 8, 0, 8>>
Letters == <<97, 98>>

\* the values DefaultQuery hands over: "0" (also for no offset), "1", the
\* largest int;  "-1", "ab", "", one past the largest int
GoodOffsets == {Ascii(<<0>>), Ascii(<<1>>), Ascii(MaxInt64Digits)}
BadOffsets == {<<Minus>> \o Ascii(<<1>>), Letters, <<>>, Ascii(PastInt64Digits)}

\* "1", "10" (also for no limit), "100";  "0", "101", "1ab", the largest int
GoodLimits == {Ascii(<<1>>), Ascii(<<1, 0>>), Ascii(<<1, 0, 0>>)}
BadLimits ==
    {Ascii(<<0>>), Ascii(<<1, 0, 1>>), Ascii(<<1>>) \o Letters, Ascii(MaxInt64Digits)}

\* strconv.Atoi of each parameter served
Parameters == GoodOffsets \cup BadOffsets \cup GoodLimits \cup BadLimits
AtoiOf == [s \in Parameters |-> Atoi(s)]

\* the limit check as it would be without its upper bound
BadLimitUnbounded(limit) == ~Less64(Int64Of(0), limit)

\* offset < 0;  limit <= 0 || limit > 100
BadOffset(offset) == IsNeg64(offset)
BadLimit(limit) == ~Less64(Int64Of(0), limit) \/ Less64(Int64Of(100), limit)

\* GET /tasks/paginated?offset=..&limit=.. arrives: both parameters are parsed
\* and checked, 400 for the first that fails
GetTasksPaginated(t, offsetStr, limitStr) ==
    /\ Free(t)
    /\ LET offset == AtoiOf[offsetStr]
           limit == AtoiOf[limitStr]
           bad == \/ offset.err \/ BadOffset(offset.val)
                  \/ limit.err \/ BadLimit(limit.val)
       IN  http' = [http EXCEPT ![t] =
                       [NoRequest EXCEPT !.h = IF bad THEN "responded" ELSE "paginated",
                                         !.status = IF bad THEN 400 ELSE 0,
                                         !.offset = offsetStr, !.limit = limitStr]]
    /\ calls' = [calls EXCEPT ![t] = 0]
    /\ UNCHANGED <<tasks, wlock, rlock, maxTasks, shardCount, given, made, taskCount, clock,
                   uuids, pc, loc, recording, snap, chain, assigned, solo, limiter, served, single, hashing>>

\* tasks, total, err := memStorage.GetTasksPaginated(offset, limit)
PaginatedQuery(t) ==
    /\ http[t].h = "paginated"
    /\ calls[t] = 0
    /\ CallGetTasksPaginated(t, AtoiOf[http[t].offset].val, AtoiOf[http[t].limit].val)
    /\ calls' = [calls EXCEPT ![t] = 1]

\* if err != nil: 500, else 200 with the page; a panic of the store is answered
\* 500 by gin's recovery
PaginatedRespond(t) ==
    /\ http[t].h = "paginated"
    /\ calls[t] = 1
    /\ Returned(t, "GetTasksPaginated")
    /\ http' = [http EXCEPT ![t].h = "responded",
                            ![t].status = IF loc[t].err # "" THEN 500 ELSE 200]
    /\ UNCHANGED <<storeVars, clock, limiter, served, single, hashing>>

\* ---- the single-lock MemoryStorage (internal/storage/memory.go), each method
\* as a whole: it runs under the store's one mutex
Ret0 == [err |-> "", task |-> NilPtr, list |-> <<>>, n |-> 0, total |-> 0]

\* NewMemoryStorage of memory.go; uuids counts the uuids this store has drawn
NewSingleStorage(n) ==
    [tasks |-> EmptyMap, maxTasks |-> IF n <= 0 THEN DefaultMaxTasks ELSE n, uuids |-> 0,
     ret |-> Ret0]

\* the loop for ms.tasks[taskID] != nil never runs again: no uuid is issued twice
SingleCreate(s, req, now) ==
    LET e == CreateValidate(req)
        taskID == NewUUID(s.uuids)
        task == NewTask(req.Name, req.Status, now, taskID)
    IN  IF e # "" THEN [s EXCEPT !.ret = [Ret0 EXCEPT !.err = ErrValidation(e)]]
        ELSE IF Cardinality(DOMAIN s.tasks) >= s.maxTasks
            THEN [s EXCEPT !.ret = [Ret0 EXCEPT !.err = ErrCapacity]]
        ELSE [s EXCEPT !.uuids = @ + 1,
                       !.tasks = MapPut(@, taskID, task),
                       !.ret = [Ret0 EXCEPT !.task = AddrOf(task)]]

SingleGetByID(s, id) ==
    IF id \notin DOMAIN s.tasks THEN [s EXCEPT !.ret = [Ret0 EXCEPT !.err = ErrNotFound]]
    ELSE [s EXCEPT !.ret = [Ret0 EXCEPT !.task = AddrOf(s.tasks[id])]]

SingleUpdate(s, id, req, now) ==
    LET e == UpdateValidate(req)
    IN  IF e # "" THEN [s EXCEPT !.ret = [Ret0 EXCEPT !.err = ErrValidation(e)]]
        ELSE IF ~HasUpdates(req) THEN [s EXCEPT !.ret = [Ret0 EXCEPT !.err = ErrNoUpdates]]
        ELSE IF id \notin DOMAIN s.tasks
            THEN [s EXCEPT !.ret = [Ret0 EXCEPT !.err = ErrNotFound]]
        ELSE LET updatedTask == ApplyTo(req, s.tasks[id], now)
             IN  [s EXCEPT !.tasks = MapPut(@, id, updatedTask),
                           !.ret = [Ret0 EXCEPT !.task = AddrOf(updatedTask)]]

SingleDelete(s, id) ==
    IF id \notin DOMAIN s.tasks THEN [s EXCEPT !.ret = [Ret0 EXCEPT !.err = ErrNotFound]]
    ELSE [s EXCEPT !.tasks = MapDel(@, id), !.ret = Ret0]

SingleCount(s) == [s EXCEPT !.ret = [Ret0 EXCEPT !.n = Cardinality(DOMAIN s.tasks)]]

SingleClear(s) == [s EXCEPT !.tasks = EmptyMap, !.ret = Ret0]

\* the copies a range over ms.tasks in this order appends
SingleCopies(s, order) == [j \in 1..Len(order) |-> AddrOf(s.tasks[order[j]])]

SingleGetAll(s, order) == [s EXCEPT !.ret = [Ret0 EXCEPT !.list = SingleCopies(s, order)]]

SingleGetTasksByStatus(s, status, order) ==
    LET kept == SelectSeq(order, LAMBDA k : s.tasks[k].Status = status)
    IN  [s EXCEPT !.ret = [Ret0 EXCEPT !.list = SingleCopies(s, kept)]]

SingleGetTasksPaginated(s, offset, limit, order) ==
    LET allTasks == SingleCopies(s, order)
        page == PageOf(allTasks, offset, limit)
    IN  [s EXCEPT !.ret = [Ret0 EXCEPT !.err = page.err, !.list = page.list,
                                       !.total = IF page.err = "" THEN Len(allTasks) ELSE 0]]

\* the call with the locals l, made on the single-lock store at time now
SingleCall(s, l, now, order) ==
    CASE l.op = "Create" -> SingleCreate(s, l.creq, now)
      [] l.op = "GetByID" -> SingleGetByID(s, l.id)
      [] l.op = "Update" -> SingleUpdate(s, l.id, l.ureq, now)
      [] l.op = "Delete" -> SingleDelete(s, l.id)
      [] l.op = "Count" -> SingleCount(s)
      [] l.op = "Clear" -> SingleClear(s)
      [] l.op = "GetAll" -> SingleGetAll(s, order)
      [] l.op = "GetTasksByStatus" -> SingleGetTasksByStatus(s, l.status, order)
      [] l.op = "GetTasksPaginated" -> SingleGetTasksPaginated(s, l.offset, l.limit, order)

\* the call the sharded store has just answered is made on the single-lock store
SingleRun ==
    /\ pc[1] = "done"
    /\ calls[1] = 1
    /\ \E order \in Orders(DOMAIN single.tasks) :
          single' = SingleCall(single, loc[1], clock, order)
    /\ calls' = [calls EXCEPT ![1] = 0]
    /\ UNCHANGED <<tasks, wlock, rlock, maxTasks, shardCount, given, made, taskCount, clock,
                   uuids, pc, loc, recording, snap, chain, assigned, solo, limiter, http, served,
                   hashing>>

\* the keys getShard is called with on its own, and fnv32Hash of each
HashBytes == {0, 97, 255}
Foobar == <<102, 111, 111, 98, 97, 114>>
UuidStart == <<49, 50, 51, 101, 52, 53, 54, 55, 45, 101, 56, 57, 98, 45, 49, 50, 100, 51>>
HashKeys ==
    {<<>>, Foobar, UuidStart} \cup {<<a>> : a \in HashBytes} \cup (HashBytes \X HashBytes)
        \cup {IdKey(i) : i \in IdSpace}
HashOfKey == [key \in HashKeys |-> fnv32Hash(key)]

\* no getShard call made on its own yet
NoHash == [at |-> "", key |-> <<>>, hash |-> <<0, 0>>, index |-> 0,
           before |-> [at |-> "", key |-> <<>>, hash |-> <<0, 0>>]]

\* ms.getShard(key): hash := ms.fnv32Hash(key); shardIndex := hash % ms.shardCount
getShard(key) ==
    /\ hashing' = [at |-> "done", key |-> key, hash |-> HashOfKey[key],
                   index |-> HashMod(HashOfKey[key], shardCount),
                   before |-> [at |-> hashing.at, key |-> hashing.key,
                               hash |-> hashing.hash]]
    /\ UNCHANGED <<tasks, wlock, rlock, maxTasks, shardCount, given, made, taskCount, clock,
                   uuids, pc, loc, recording, snap, chain, calls, assigned, solo, limiter, http,
                   served, single>>

\* ---- NewMemoryStorage(n), before any call
NoSnap == [tasks |-> <<>>, taskCount |-> 0]

NewStore(n, rec) ==
    /\ maxTasks = EffectiveMaxTasks(n)
    /\ shardCount = ShardCountFor(n)
    /\ given = n
    /\ tasks = [i \in 0..(ShardCountFor(n) - 1) |-> MakeTaskMap.m]
    /\ made = [i \in 0..(ShardCountFor(n) - 1) |-> ~MakeTaskMap.nil]
    /\ wlock = [i \in 0..(ShardCountFor(n) - 1) |-> 0]
    /\ rlock = [i \in 0..(ShardCountFor(n) - 1) |-> {}]
    /\ taskCount = 0
    /\ clock = 1
    /\ uuids = 0
    /\ pc = [t \in Threads |-> "idle"]
    /\ loc = [t \in Threads |-> Loc0]
    /\ recording = rec
    /\ snap = NoSnap
    /\ chain = NoChain
    /\ calls = [t \in Threads |-> 0]
    /\ assigned = [id \in IdSpace |-> 0]
    /\ solo = [t \in Threads |-> FALSE]

\* RateLimitConfig: the limits of the tests, a window of one tick
TestRateLimitConfig == [PerIP |-> 2, PerAPIKey |-> 2, WindowSize |-> 1]

\* the store constructed, no request being served
Constructed(n, rec) ==
    /\ NewStore(n, rec)
    /\ limiter = NewRateLimiter(TestRateLimitConfig)
    /\ http = [t \in Threads |-> NoRequest]
    /\ served = <<>>
    /\ single = NewSingleStorage(n)
    /\ hashing = NoHash

\* ---- the inputs of the calls
NameInputs == {"A", "", LongestName, TooLongName}
StatusInputs == {TaskIncomplete, TaskCompleted, 2}
NameOnly(n) == [Name |-> [set |-> TRUE, val |-> n], Status |-> NoField]
StatusOnly(v) == [Name |-> [set |-> FALSE, val |-> ""], Status |-> [set |-> TRUE, val |-> v]]
Both(n, v) == [Name |-> [set |-> TRUE, val |-> n], Status |-> [set |-> TRUE, val |-> v]]
UpdateInputs ==
    {NoUpdate, NameOnly("B"), NameOnly(""), NameOnly(LongestName), NameOnly(TooLongName),
     StatusOnly(TaskIncomplete), StatusOnly(TaskCompleted), StatusOnly(2),
     Both("B", TaskCompleted), Both("", TaskCompleted), Both("B", 2)}

DoCreate(t) ==
    /\ uuids + CreatesBegun < MaxIds
    /\ \E name \in NameInputs, status \in StatusInputs : CallCreate(t, name, status)
    /\ UNCHANGED calls
DoGetByID(t) == (\E id \in Ids : CallGetByID(t, id)) /\ UNCHANGED calls
DoUpdate(t) == (\E id \in Ids, req \in UpdateInputs : CallUpdate(t, id, req)) /\ UNCHANGED calls
DoDelete(t) == (\E id \in Ids : CallDelete(t, id)) /\ UNCHANGED calls
DoCount(t) == CallCount(t) /\ UNCHANGED calls
DoClear(t) == CallClear(t) /\ UNCHANGED calls
DoGetAll(t) == CallGetAll(t) /\ UNCHANGED calls

\* ---- SpecSeq: one caller, one call at a time
InitSeq == Constructed(SmallCeiling, TRUE)

NextSeq ==
    \/ DoCreate(1) \/ DoGetByID(1) \/ DoUpdate(1) \/ DoDelete(1) \/ DoCount(1) \/ DoClear(1)
    \/ DoGetAll(1)
    \/ CreateCheck(1) \/ CreateNew(1) \/ CreateLock(1) \/ CreateStore(1) \/ CreateCount(1)
    \/ GetLock(1) \/ GetRead(1)
    \/ UpdateCheck(1) \/ UpdateLock(1) \/ UpdateApply(1)
    \/ DeleteLock(1) \/ DeleteApply(1)
    \/ CountLoad(1)
    \/ ClearLock(1) \/ ClearReset(1) \/ ClearCount(1)
    \/ ScanStart(1) \/ ScanLock(1) \/ ScanRead(1)
    \/ Tick

SpecSeq == InitSeq /\ [][NextSeq]_vars

\* ---- SpecCreates: NumThreads callers, each making CreatesPerThread Creates
TestCreate(t) ==
    /\ calls[t] < CreatesPerThread
    /\ CallCreate(t, "A", TaskIncomplete)
    /\ calls' = [calls EXCEPT ![t] = @ + 1]

InitCreates ==
    \E room \in {0, 1} : Constructed((NumThreads * CreatesPerThread) + room, FALSE)

NextCreates ==
    \E t \in Threads :
        \/ TestCreate(t)
        \/ CreateCheck(t) \/ CreateNew(t) \/ CreateLock(t) \/ CreateStore(t) \/ CreateCount(t)

SpecCreates == InitCreates /\ [][NextCreates]_vars

\* ---- SpecRace: concurrent callers of Create, Delete and Clear
RaceCreate(t) ==
    /\ uuids + CreatesBegun < RaceIds
    /\ CallCreate(t, "A", TaskIncomplete)
    /\ UNCHANGED calls

RaceDelete(t) == (\E id \in 1..RaceIds : CallDelete(t, id)) /\ UNCHANGED calls

InitRace == Constructed(SmallCeiling, FALSE)

NextRace ==
    \E t \in Threads :
        \/ RaceCreate(t) \/ RaceDelete(t) \/ DoClear(t)
        \/ CreateCheck(t) \/ CreateNew(t) \/ CreateLock(t) \/ CreateStore(t) \/ CreateCount(t)
        \/ DeleteLock(t) \/ DeleteApply(t)
        \/ ClearLock(t) \/ ClearReset(t) \/ ClearCount(t)

SpecRace == InitRace /\ [][NextRace]_vars

\* ---- SpecConc: concurrent callers of Create and Update, and the clock
ConcCreate(t) ==
    /\ calls[t] < ConcCalls
    /\ CallCreate(t, "A", TaskIncomplete)
    /\ calls' = [calls EXCEPT ![t] = @ + 1]

ConcUpdate(t) ==
    /\ calls[t] < ConcCalls
    /\ \E id \in Ids, req \in {NameOnly("B"), StatusOnly(TaskCompleted)} : CallUpdate(t, id, req)
    /\ calls' = [calls EXCEPT ![t] = @ + 1]

InitConc == Constructed(SmallCeiling, FALSE)

NextConc ==
    \/ \E t \in Threads :
        \/ ConcCreate(t) \/ ConcUpdate(t)
        \/ CreateCheck(t) \/ CreateNew(t) \/ CreateLock(t) \/ CreateStore(t) \/ CreateCount(t)
        \/ UpdateCheck(t) \/ UpdateLock(t) \/ UpdateApply(t)
    \/ Tick

SpecConc == InitConc /\ [][NextConc]_vars

\* ---- SpecAlias: one caller that writes to the records the operations return
AliasCreate(t) ==
    /\ uuids + CreatesBegun < MaxIds
    /\ \E status \in {TaskIncomplete, TaskCompleted} : CallCreate(t, "A", status)
    /\ UNCHANGED calls

AliasGetByID(t) == (\E id \in Ids : CallGetByID(t, id)) /\ UNCHANGED calls

AliasUpdate(t) == (\E id \in Ids : CallUpdate(t, id, NameOnly("B"))) /\ UNCHANGED calls

AliasGetAll(t) == CallGetAll(t) /\ UNCHANGED calls

AliasGetTasksByStatus(t) == CallGetTasksByStatus(t, TaskIncomplete) /\ UNCHANGED calls

AliasGetTasksCreatedAfter(t) == CallGetTasksCreatedAfter(t, 0) /\ UNCHANGED calls

AliasGetTasksPaginated(t) ==
    /\ \E offset \in {0, 1} : CallGetTasksPaginated(t, Int64Of(offset), Int64Of(1))
    /\ UNCHANGED calls

InitAlias == Constructed(SmallCeiling, FALSE)

NextAlias ==
    \/ AliasCreate(1) \/ AliasGetByID(1) \/ AliasUpdate(1)
    \/ AliasGetAll(1) \/ AliasGetTasksByStatus(1) \/ AliasGetTasksCreatedAfter(1)
    \/ AliasGetTasksPaginated(1)
    \/ CreateCheck(1) \/ CreateNew(1) \/ CreateLock(1) \/ CreateStore(1) \/ CreateCount(1)
    \/ GetLock(1) \/ GetRead(1)
    \/ UpdateCheck(1) \/ UpdateLock(1) \/ UpdateApply(1)
    \/ ScanStart(1) \/ ScanLock(1) \/ ScanRead(1)
    \/ MutateTask(1) \/ MutateListed(1)

SpecAlias == InitAlias /\ [][NextAlias]_vars

\* ---- SpecQuiet: concurrent callers of Create, Delete and Clear, and reads that
\* caller 1 makes while nothing else runs
QuietOps == {"GetAll", "GetTasksByStatus", "GetTasksPaginated", "GetUsage"}

Quiet == \A u \in Threads : AtRest(u)

ReadRunning == \E u \in Threads : ~AtRest(u) /\ loc[u].op \in QuietOps

QuietCreate(t) ==
    /\ ~ReadRunning
    /\ uuids + CreatesBegun < MaxIds
    /\ \E status \in {TaskIncomplete, TaskCompleted} : CallCreate(t, "A", status)
    /\ UNCHANGED calls

QuietDelete(t) == ~ReadRunning /\ (\E id \in Ids : CallDelete(t, id)) /\ UNCHANGED calls

QuietClear(t) == ~ReadRunning /\ CallClear(t) /\ UNCHANGED calls

QuietGetAll(t) == Quiet /\ CallGetAll(t) /\ UNCHANGED calls

QuietGetTasksByStatus(t) ==
    /\ Quiet
    /\ \E status \in {TaskIncomplete, TaskCompleted} : CallGetTasksByStatus(t, status)
    /\ UNCHANGED calls

QuietGetUsage(t) == Quiet /\ CallGetUsage(t) /\ UNCHANGED calls

PageOffsets == {Int64Of(0), Int64Of(1), Int64Of(2)}
PageLimits == {Int64Of(1), Int64Of(2), MaxInt64}

QuietGetTasksPaginated(t) ==
    /\ Quiet
    /\ \E offset \in PageOffsets, limit \in PageLimits : CallGetTasksPaginated(t, offset, limit)
    /\ UNCHANGED calls

InitQuiet == Constructed(SmallCeiling, FALSE)

NextQuiet ==
    \/ \E t \in Threads :
          \/ QuietCreate(t) \/ QuietDelete(t) \/ QuietClear(t)
          \/ CreateCheck(t) \/ CreateNew(t) \/ CreateLock(t) \/ CreateStore(t)
          \/ CreateCount(t)
          \/ DeleteLock(t) \/ DeleteApply(t)
          \/ ClearLock(t) \/ ClearReset(t) \/ ClearCount(t)
    \/ QuietGetAll(1) \/ QuietGetTasksByStatus(1) \/ QuietGetUsage(1)
    \/ QuietGetTasksPaginated(1)
    \/ ScanStart(1) \/ ScanLock(1) \/ ScanRead(1)
    \/ UsageLoad(1) \/ UsageLock(1) \/ UsageRead(1)

SpecQuiet == InitQuiet /\ [][NextQuiet]_vars

\* ---- SpecLocks: concurrent callers of every operation of the store, each
\* making ConcCalls calls
Counted(t) == calls[t] < ConcCalls /\ calls' = [calls EXCEPT ![t] = @ + 1]

LockClear(t) == CallClear(t) /\ Counted(t)

LockCreate(t) ==
    /\ uuids + CreatesBegun < SmallCeiling
    /\ CallCreate(t, "A", TaskIncomplete)
    /\ Counted(t)

LockGetByID(t) == (\E id \in 1..SmallCeiling : CallGetByID(t, id)) /\ Counted(t)

LockUpdate(t) ==
    /\ \E id \in 1..SmallCeiling : CallUpdate(t, id, StatusOnly(TaskCompleted))
    /\ Counted(t)

LockDelete(t) == (\E id \in 1..SmallCeiling : CallDelete(t, id)) /\ Counted(t)

LockGetAll(t) == CallGetAll(t) /\ Counted(t)

LockGetTasksByStatus(t) == CallGetTasksByStatus(t, TaskCompleted) /\ Counted(t)

LockGetTasksCreatedAfter(t) == CallGetTasksCreatedAfter(t, 0) /\ Counted(t)

LockGetTasksPaginated(t) ==
    CallGetTasksPaginated(t, Int64Of(0), Int64Of(1)) /\ Counted(t)

LockGetStats(t) == CallGetStats(t) /\ Counted(t)

LockGetUsage(t) == CallGetUsage(t) /\ Counted(t)

LockHealthCheck(t) == CallHealthCheck(t) /\ Counted(t)

LockCount(t) == CallCount(t) /\ Counted(t)

InitLocks == Constructed(SmallCeiling, FALSE)

NextLocks ==
    \E t \in Threads :
        \/ LockCreate(t) \/ LockGetByID(t) \/ LockUpdate(t) \/ LockDelete(t) \/ LockClear(t)
        \/ LockGetAll(t) \/ LockGetTasksByStatus(t) \/ LockGetTasksCreatedAfter(t)
        \/ LockGetTasksPaginated(t) \/ LockGetStats(t) \/ LockGetUsage(t)
        \/ LockHealthCheck(t)
        \/ CreateCheck(t) \/ CreateNew(t) \/ CreateLock(t) \/ CreateStore(t) \/ CreateCount(t)
        \/ GetLock(t) \/ GetRead(t)
        \/ UpdateCheck(t) \/ UpdateLock(t) \/ UpdateApply(t)
        \/ DeleteLock(t) \/ DeleteApply(t)
        \/ ClearLock(t) \/ ClearReset(t) \/ ClearCount(t)
        \/ ScanStart(t) \/ ScanLock(t) \/ ScanRead(t)
        \/ StatsLock(t) \/ StatsRead(t) \/ StatsLoad(t)
        \/ UsageLoad(t) \/ UsageLock(t) \/ UsageRead(t)
        \/ HealthStart(t) \/ HealthRead(t)
        \/ LockCount(t) \/ CountLoad(t)

SpecLocks == InitLocks /\ [][NextLocks]_vars

\* ---- SpecCeiling: one caller on a store constructed with any of the maxTasks
\* around the default and around the thresholds of the shard count
CeilingInputs ==
    {-1, 0, 1, SmallCeiling, SmallThreshold - 1, SmallThreshold, DefaultMaxTasks,
     LargeThreshold, LargeThreshold + 1}

DoGetMaxTasks(t) == CallGetMaxTasks(t) /\ UNCHANGED calls

InitCeiling == \E n \in CeilingInputs : Constructed(n, FALSE)

NextCeiling ==
    \/ DoCreate(1) \/ DoDelete(1) \/ DoCount(1) \/ DoClear(1) \/ DoGetMaxTasks(1)
    \/ CreateCheck(1) \/ CreateNew(1) \/ CreateLock(1) \/ CreateStore(1) \/ CreateCount(1)
    \/ DeleteLock(1) \/ DeleteApply(1)
    \/ CountLoad(1)
    \/ ClearLock(1) \/ ClearReset(1) \/ ClearCount(1)
    \/ MaxRead(1)

SpecCeiling == InitCeiling /\ [][NextCeiling]_vars

\* ---- SpecHealth: callers running Create, Clear and HealthCheck, and the step
\* of TestMemoryStorage_HealthCheck that takes the shards away, after which
\* only HealthCheck is called
Intact == DOMAIN tasks # {}

\* storage.shards = nil, between two calls
NilShards ==
    /\ Intact
    /\ \A t \in Threads : AtRest(t)
    /\ tasks' = <<>>
    /\ made' = <<>>
    /\ wlock' = <<>>
    /\ rlock' = <<>>
    /\ solo' = [t \in Threads |-> FALSE]
    /\ UNCHANGED <<maxTasks, shardCount, given, taskCount, clock, uuids, pc, loc,
                   recording, snap, chain, calls, assigned, limiter, http, served, single, hashing>>

HealthCreate(t) == Intact /\ LockCreate(t)

HealthClear(t) == Intact /\ LockClear(t)

InitHealth == Constructed(SmallCeiling, FALSE)

NextHealth ==
    \/ \E t \in Threads :
        \/ HealthCreate(t) \/ HealthClear(t) \/ LockHealthCheck(t)
        \/ CreateCheck(t) \/ CreateNew(t) \/ CreateLock(t) \/ CreateStore(t) \/ CreateCount(t)
        \/ ClearLock(t) \/ ClearReset(t) \/ ClearCount(t)
        \/ HealthStart(t) \/ HealthRead(t)
    \/ NilShards

SpecHealth == InitHealth /\ [][NextHealth]_vars

\* ---- SpecLimiter: requests from two clients, with and without an API key,
\* through a rate limiter of any small limits, time passing and cleanup running
LimitInputs == {0, 1, 2}

InitLimiter ==
    /\ NewStore(SmallCeiling, FALSE)
    /\ \E perIP \in LimitInputs, perKey \in LimitInputs \ {0} :
          limiter = NewRateLimiter([PerIP |-> perIP, PerAPIKey |-> perKey, WindowSize |-> 1])
    /\ http = [t \in Threads |-> NoRequest]
    /\ served = <<>>
    /\ single = NewSingleStorage(SmallCeiling)
    /\ hashing = NoHash

NextLimiter ==
    \/ \E t \in Threads :
          \/ \E ip \in Clients, key \in ApiKeys \cup {""} : Allow(t, ip, key)
          \/ AllowLock(t) \/ AllowCheck(t)
    \/ CleanupLock \/ Cleanup
    \/ LimiterTick

SpecLimiter == InitLimiter /\ [][NextLimiter]_vars

\* ---- SpecDelete: handlers serving DELETE requests concurrently on a store in
\* which records are created
HandlerCreate(t) ==
    /\ Free(t)
    /\ uuids + CreatesBegun < SmallCeiling
    /\ CallCreate(t, "A", TaskIncomplete)
    /\ UNCHANGED calls

InitDelete == Constructed(SmallCeiling, FALSE)

NextDelete ==
    \E t \in Threads :
        \/ HandlerCreate(t)
        \/ \E id \in 0..SmallCeiling : DeleteTask(t, id)
        \/ DeleteLookup(t) \/ DeleteMissing(t) \/ DeleteRemove(t) \/ DeleteRespond(t)
        \/ CreateCheck(t) \/ CreateNew(t) \/ CreateLock(t) \/ CreateStore(t) \/ CreateCount(t)
        \/ GetLock(t) \/ GetRead(t)
        \/ DeleteLock(t) \/ DeleteApply(t)

SpecDelete == InitDelete /\ [][NextDelete]_vars

\* ---- SpecDeletes: one caller fills the store, then every caller calls Delete
\* once, of any id, all at the same time
SetupCreate ==
    /\ \A u \in Threads : calls[u] = 0
    /\ uuids + CreatesBegun < SmallCeiling
    /\ CallCreate(1, "A", TaskIncomplete)
    /\ UNCHANGED calls

TwinDelete(t) ==
    /\ \A u \in Threads : AtRest(u) \/ loc[u].op = "Delete"
    /\ calls[t] = 0
    /\ \E id \in 1..SmallCeiling : CallDelete(t, id)
    /\ calls' = [calls EXCEPT ![t] = 1]

InitDeletes == Constructed(SmallCeiling, FALSE)

NextDeletes ==
    \/ SetupCreate
    \/ CreateCheck(1) \/ CreateNew(1) \/ CreateLock(1) \/ CreateStore(1) \/ CreateCount(1)
    \/ \E t \in Threads : TwinDelete(t) \/ DeleteLock(t) \/ DeleteApply(t)

SpecDeletes == InitDeletes /\ [][NextDeletes]_vars

\* ---- SpecPair: one caller makes every call on the sharded store and then,
\* with the same inputs at the same time, on the single-lock store
PairCreates ==
    {[Name |-> "A", Status |-> TaskIncomplete], [Name |-> "A", Status |-> TaskCompleted],
     [Name |-> "", Status |-> TaskIncomplete], [Name |-> "A", Status |-> 2]}

Synced == AtRest(1) /\ calls[1] = 0
Paired == calls' = [calls EXCEPT ![1] = 1]

PairCreate ==
    /\ Synced /\ uuids < MaxIds
    /\ \E req \in PairCreates : CallCreate(1, req.Name, req.Status)
    /\ Paired
PairGetByID == Synced /\ (\E id \in Ids : CallGetByID(1, id)) /\ Paired
PairUpdate ==
    /\ Synced
    /\ \E id \in Ids, req \in {NoUpdate, NameOnly("B"), StatusOnly(TaskCompleted), StatusOnly(2)} :
          CallUpdate(1, id, req)
    /\ Paired
PairDelete == Synced /\ (\E id \in Ids : CallDelete(1, id)) /\ Paired
PairCount == Synced /\ CallCount(1) /\ Paired
PairClear == Synced /\ CallClear(1) /\ Paired
PairGetAll == Synced /\ CallGetAll(1) /\ Paired
PairGetTasksByStatus ==
    /\ Synced
    /\ \E status \in {TaskIncomplete, TaskCompleted} : CallGetTasksByStatus(1, status)
    /\ Paired
PairGetTasksPaginated ==
    /\ Synced
    /\ \E offset \in PageOffsets, limit \in PageLimits : CallGetTasksPaginated(1, offset, limit)
    /\ Paired
PairTick == Synced /\ Tick

InitPair == Constructed(SmallCeiling, FALSE)

NextPair ==
    \/ PairCreate \/ PairGetByID \/ PairUpdate \/ PairDelete \/ PairCount \/ PairClear
    \/ PairGetAll \/ PairGetTasksByStatus \/ PairGetTasksPaginated
    \/ CreateCheck(1) \/ CreateNew(1) \/ CreateLock(1) \/ CreateStore(1) \/ CreateCount(1)
    \/ GetLock(1) \/ GetRead(1)
    \/ UpdateCheck(1) \/ UpdateLock(1) \/ UpdateApply(1)
    \/ DeleteLock(1) \/ DeleteApply(1)
    \/ CountLoad(1)
    \/ ClearLock(1) \/ ClearReset(1) \/ ClearCount(1)
    \/ ScanStart(1) \/ ScanLock(1) \/ ScanRead(1)
    \/ SingleRun
    \/ PairTick

SpecPair == InitPair /\ [][NextPair]_vars

\* ---- SpecPaginated: handlers serving GET /tasks/paginated concurrently on a
\* store in which records are created
\* the requests served: each bad value beside an acceptable one and a pair of
\* two bad values, by every thread; every acceptable pair, by the first
RefusedQueries ==
    (BadOffsets \X {Ascii(<<1, 0>>)})
        \cup ({Ascii(<<0>>)} \X BadLimits)
        \cup {<<Letters, Ascii(<<0>>)>>}
PaginatedQueries(t) ==
    IF t = 1 THEN (GoodOffsets \X GoodLimits) \cup RefusedQueries ELSE RefusedQueries

InitPaginated == Constructed(SmallCeiling, FALSE)

NextPaginated ==
    \E t \in Threads :
        \/ HandlerCreate(t)
        \/ \E q \in PaginatedQueries(t) : GetTasksPaginated(t, q[1], q[2])
        \/ PaginatedQuery(t) \/ PaginatedRespond(t)
        \/ CreateCheck(t) \/ CreateNew(t) \/ CreateLock(t) \/ CreateStore(t) \/ CreateCount(t)
        \/ ScanStart(t) \/ ScanLock(t) \/ ScanRead(t)

SpecPaginated == InitPaginated /\ [][NextPaginated]_vars

\* ---- SpecSmart: requests of one client to health, read and write endpoints
\* through SmartRateLimit, time passing and cleanup running
SmartLimits == {1, 2}
SmartRequests ==
    {<<"/health", "GET">>, <<"/api/v1/tasks", "GET">>, <<"/api/v1/tasks", "POST">>,
     <<"/api/v1/tasks/1", "DELETE">>, <<"/api/v1/tasks/1", "PATCH">>}

InitSmart ==
    /\ NewStore(SmallCeiling, FALSE)
    /\ \E perIP \in SmartLimits :
          limiter = NewRateLimiter([PerIP |-> perIP, PerAPIKey |-> 1, WindowSize |-> 1])
    /\ http = [t \in Threads |-> NoRequest]
    /\ served = <<>>
    /\ single = NewSingleStorage(SmallCeiling)
    /\ hashing = NoHash

NextSmart ==
    \/ \E t \in Threads :
          \/ \E q \in SmartRequests : SmartRateLimit(t, "ip1", "", q[1], q[2])
          \/ CustomLock(t) \/ allowWithCustomLimit(t)
    \/ CleanupLock \/ Cleanup
    \/ LimiterTick

SpecSmart == InitSmart /\ [][NextSmart]_vars

\* ---- SpecHash: getShard called with keys of no, one, two, three, six and
\* eighteen bytes, on stores of every shard count
InitHash == \E n \in CeilingInputs : Constructed(n, FALSE)

NextHash == \E key \in HashKeys : getShard(key)

SpecHash == InitHash /\ [][NextHash]_vars

\* ---- SpecLive: callers under a fair scheduler run one operation of each
\* locking pattern: one shard written (Create, Delete), one shard read
\* (GetByID), every shard written in turn (Clear) and read in turn (GetAll)
Step(t) ==
    \/ CreateCheck(t) \/ CreateNew(t) \/ CreateLock(t) \/ CreateStore(t) \/ CreateCount(t)
    \/ GetLock(t) \/ GetRead(t)
    \/ DeleteLock(t) \/ DeleteApply(t)
    \/ ClearLock(t) \/ ClearReset(t) \/ ClearCount(t)
    \/ ScanStart(t) \/ ScanLock(t) \/ ScanRead(t)

NextLive ==
    \E t \in Threads :
        \/ LockCreate(t) \/ LockGetByID(t) \/ LockDelete(t) \/ LockClear(t) \/ LockGetAll(t)
        \/ Step(t)

\* a goroutine that is able to run again and again (the lock it waits for
\* free again and again) does run: sync.RWMutex hands a released lock on
Fairness == \A t \in Threads : SF_vars(Step(t))

SpecLive == InitLocks /\ [][NextLive]_vars /\ Fairness

\* ================================================================ claims
ValidationErrors ==
    {ErrValidation(m) : m \in {"task name cannot be empty",
                               "task name cannot exceed 255 characters",
                               "invalid task status"}}

\* the request names a name and a status the store accepts
AcceptableCreate(req) ==
    /\ req.Name # "" /\ Len(req.Name) <= 255
    /\ req.Status \in {0, 1}

BadUpdateName(req) == req.Name.set /\ (req.Name.val = "" \/ Len(req.Name.val) > 255)
BadUpdateStatus(req) == req.Status.set /\ req.Status.val \notin {0, 1}
EmptyUpdate(req) == ~req.Name.set /\ ~req.Status.set
ProperUpdate(req) == ~BadUpdateName(req) /\ ~BadUpdateStatus(req) /\ ~EmptyUpdate(req)

\* the key was stored when the running call began
WasStored(k) == k \in DOMAIN snap.tasks[ShardIndex(k)]

\* C2: with ceiling k and one call at a time, a Create called with k records
\* stored fails with the capacity error, returns no record and leaves the
\* records and the counter as they were; a Create called with fewer succeeds and
\* raises the counter by one; a successful Delete lowers the counter by one, so
\* the Create after it succeeds and the counter is k again.
C2_CapacityEnforced ==
    /\ AtRest(1) => (taskCount = RecordCount /\ taskCount <= maxTasks)
    /\ (Returned(1, "Create") /\ AcceptableCreate(loc[1].creq)) =>
          IF snap.taskCount >= maxTasks
          THEN /\ loc[1].err = ErrCapacity
               /\ loc[1].task.nil
               /\ taskCount = maxTasks
               /\ tasks = snap.tasks
          ELSE /\ loc[1].err = ""
               /\ ~loc[1].task.nil
               /\ taskCount = snap.taskCount + 1
    /\ Succeeded(1, "Delete") => taskCount = snap.taskCount - 1

\* a Create that succeeds right after a successful Delete and fills the store
\* again, k + 1 Creates having passed the capacity check
C2_Witness ==
    /\ Succeeded(1, "Create")
    /\ chain.op = "Delete"
    /\ taskCount = maxTasks
    /\ uuids = maxTasks + 1

\* C5: a successful Create returns a record with a fresh id, the name and status
\* of the request, and created_at = updated_at, not zero; GetByID of that id,
\* called next, succeeds and returns the same id, name, status and timestamps.
C5_RoundTrip ==
    /\ Succeeded(1, "Create") =>
          LET r == loc[1].task.obj
          IN  /\ ~loc[1].task.nil
              /\ r.ID # 0
              /\ r.Name = loc[1].creq.Name
              /\ r.Status = loc[1].creq.Status
              /\ r.CreatedAt # 0
              /\ r.UpdatedAt = r.CreatedAt
    /\ (Returned(1, "GetByID") /\ chain.op = "Create" /\ loc[1].id = chain.obj.ID) =>
          /\ loc[1].err = ""
          /\ ~loc[1].task.nil
          /\ loc[1].task.obj = chain.obj

\* GetByID has returned the record the call before it created, after a tick
C5_Witness ==
    /\ Succeeded(1, "GetByID")
    /\ chain.op = "Create"
    /\ loc[1].id = chain.obj.ID
    /\ loc[1].task.obj.CreatedAt > 1

\* C7: a successful Update that supplies only name leaves status as it was, one
\* that supplies only status leaves name as it was, the supplied fields are set,
\* id and created_at stay, and every other record of the store stays as it was.
C7_UpdateFrame ==
    Succeeded(1, "Update") =>
       LET k == loc[1].id
           i == ShardIndex(k)
           req == loc[1].ureq
       IN  /\ WasStored(k)
           /\ k \in DOMAIN tasks[i]
           /\ req.Name.set => tasks[i][k].Name = req.Name.val
           /\ req.Status.set => tasks[i][k].Status = req.Status.val
           /\ ~req.Status.set => tasks[i][k].Status = snap.tasks[i][k].Status
           /\ ~req.Name.set => tasks[i][k].Name = snap.tasks[i][k].Name
           /\ tasks[i][k].ID = snap.tasks[i][k].ID
           /\ tasks[i][k].CreatedAt = snap.tasks[i][k].CreatedAt
           /\ \A j \in Shards :
                 /\ DOMAIN tasks[j] = DOMAIN snap.tasks[j]
                 /\ \A x \in DOMAIN tasks[j] : x # k => tasks[j][x] = snap.tasks[j][x]

\* a name-only Update of a completed record, one of two stored, after a tick
C7_Witness ==
    /\ Succeeded(1, "Update")
    /\ RecordCount = 2
    /\ loc[1].ureq.Name.set /\ ~loc[1].ureq.Status.set
    /\ loc[1].task.obj.Status = TaskCompleted
    /\ loc[1].task.obj.UpdatedAt > loc[1].task.obj.CreatedAt

\* C9: an Update with an empty name, a name of more than 255 characters or a
\* status outside {0, 1} returns a validation error; one that supplies neither
\* field returns 'no updates provided'; one that supplies acceptable fields for
\* an id that is not stored returns not-found; every Update that returns an
\* error returns no record and leaves the records and the counter as they were.
C9_UpdateErrors ==
    Returned(1, "Update") =>
       LET req == loc[1].ureq
       IN  /\ (BadUpdateName(req) \/ BadUpdateStatus(req)) => loc[1].err \in ValidationErrors
           /\ EmptyUpdate(req) => loc[1].err = ErrNoUpdates
           /\ (ProperUpdate(req) /\ ~WasStored(loc[1].id)) => loc[1].err = ErrNotFound
           /\ loc[1].err # "" =>
                 /\ loc[1].task.nil
                 /\ tasks = snap.tasks
                 /\ taskCount = snap.taskCount

\* an Update with an unacceptable status, of a record that is stored
C9_Witness ==
    /\ Returned(1, "Update")
    /\ BadUpdateStatus(loc[1].ureq)
    /\ ~BadUpdateName(loc[1].ureq)
    /\ Stored(loc[1].id)

\* C10: a Delete of a stored id succeeds, removes that record and no other and
\* lowers the counter by one; a Delete of an id that is not stored returns
\* not-found and leaves the records and the counter as they were; GetByID,
\* Update and Delete of the id a successful Delete has just removed return
\* not-found.
C10_Delete ==
    /\ Returned(1, "Delete") =>
          LET k == loc[1].id
              i == ShardIndex(k)
          IN  IF WasStored(k)
              THEN /\ loc[1].err = ""
                   /\ taskCount = snap.taskCount - 1
                   /\ \A j \in Shards :
                         /\ DOMAIN tasks[j] = DOMAIN snap.tasks[j] \ {k}
                         /\ \A x \in DOMAIN tasks[j] : tasks[j][x] = snap.tasks[j][x]
              ELSE /\ loc[1].err = ErrNotFound
                   /\ taskCount = snap.taskCount
                   /\ tasks = snap.tasks
    /\ (pc[1] = "done" /\ chain.op = "Delete" /\ loc[1].id = chain.id) =>
          /\ loc[1].op \in {"GetByID", "Delete"} => loc[1].err = ErrNotFound
          /\ (loc[1].op = "Update" /\ ProperUpdate(loc[1].ureq)) => loc[1].err = ErrNotFound

\* an Update of the id the Delete before it removed, another record being stored
C10_Witness ==
    /\ Returned(1, "Update")
    /\ ProperUpdate(loc[1].ureq)
    /\ chain.op = "Delete"
    /\ loc[1].id = chain.id
    /\ RecordCount = 1

\* every caller has made its CreatesPerThread calls and has its last result
AllReturned == \A t \in Threads : calls[t] = CreatesPerThread /\ pc[t] = "done"

\* C1: N threads make M Creates each, concurrently and with nothing else
\* running, on a store with ceiling N*M or more: every Create that has returned
\* has succeeded, and when all have returned the store holds N*M records, under
\* N*M distinct ids, each returned by one Create, and the counter Count() reads
\* is N*M.
C1_ConcurrentCreates ==
    /\ \A t \in Threads :
          Returned(t, "Create") => (loc[t].err = "" /\ ~loc[t].task.nil)
    /\ AllReturned =>
          /\ RecordCount = NumThreads * CreatesPerThread
          /\ taskCount = NumThreads * CreatesPerThread
          /\ Cardinality({id \in IdSpace : assigned[id] = 1}) = NumThreads * CreatesPerThread
          /\ \A id \in IdSpace : assigned[id] <= 1
          /\ \A id \in AllKeys : assigned[id] = 1 /\ tasks[ShardIndex(id)][id].ID = id

\* all N*M Creates have returned on a store whose ceiling is exactly N*M
C1_Witness ==
    /\ AllReturned
    /\ maxTasks = NumThreads * CreatesPerThread
    /\ RecordCount = maxTasks

\* C3: under every interleaving of the callers' Creates, Deletes and Clears the
\* store never holds more than ceiling + P - 1 records, P the number of callers.
C3_BoundedOvershoot == RecordCount <= maxTasks + NumThreads - 1

\* C4: no id is returned by two successful Creates, whether or not the record
\* of the first is still stored; every record is stored under its own id, and
\* the insert a Create is about to make is of a key that is not stored.
C4_DistinctIds ==
    /\ \A id \in IdSpace : assigned[id] <= 1
    /\ \A id \in AllKeys : tasks[ShardIndex(id)][id].ID = id
    /\ \A t \in Threads : pc[t] = "create_store" => ~Stored(loc[t].id)
    /\ \A t \in Threads : Succeeded(t, "Create") => loc[t].task.obj.ID = loc[t].id

\* every id the generator may issue has been returned by a Create, one of them
\* is of a record deleted since, and a Create has just returned
C4_Witness ==
    /\ \A id \in 1..RaceIds : assigned[id] = 1
    /\ \E id \in 1..RaceIds : ~Stored(id)
    /\ \E t \in Threads : Succeeded(t, "Create")

\* no pointer a caller holds after a return is a pointer the store holds
NoSharedRecord ==
    \A t \in Threads :
       pc[t] = "done" =>
          /\ loc[t].task.ref = 0
          /\ \A j \in DOMAIN loc[t].list : loc[t].list[j].ref = 0

\* C6: the records Create, GetByID, Update and the four listing operations
\* return are copies: the caller holds no pointer into the store, and a write
\* of the caller to a returned record changes neither the records of the store,
\* which are what a later read returns, nor the counter.
C6_ReturnedCopies ==
    /\ []NoSharedRecord
    /\ [][(MutateTask(1) \/ MutateListed(1)) => UNCHANGED <<tasks, taskCount>>]_vars

\* the caller has changed the name of a record GetTasksPaginated returned, and
\* the store still holds that record under its name
C6_Witness ==
    /\ Returned(1, "GetTasksPaginated")
    /\ \E j \in DOMAIN loc[1].list :
          /\ loc[1].list[j].obj.Name = "changed"
          /\ Stored(loc[1].list[j].obj.ID)
          /\ tasks[ShardIndex(loc[1].list[j].obj.ID)][loc[1].list[j].obj.ID].Name = "B"

StampsOrdered ==
    \A id \in AllKeys :
       tasks[ShardIndex(id)][id].UpdatedAt >= tasks[ShardIndex(id)][id].CreatedAt

StampsAdvance ==
    \A i \in Shards :
       \A id \in DOMAIN tasks[i] \cap DOMAIN tasks'[i] :
          tasks'[i][id].UpdatedAt >= tasks[i][id].UpdatedAt

\* C8: the clock never going backwards, every stored record has updated_at >=
\* created_at in every reachable state, and no step of an Update, concurrent
\* with other Updates of the same record or not, lowers a record's updated_at.
C8_Timestamps == []StampsOrdered /\ [][StampsAdvance]_vars

\* two Updates of one record, by two callers, have returned, the later one
\* after a tick of the clock
C8_Witness ==
    /\ \A t \in Threads : Succeeded(t, "Update")
    /\ loc[1].id = loc[2].id
    /\ loc[1].task.obj.UpdatedAt # loc[2].task.obj.UpdatedAt
    /\ loc[1].task.obj.CreatedAt = 1

\* the stored ids whose record has status s
OfStatus(s) == {k \in AllKeys : tasks[ShardIndex(k)][k].Status = s}

\* the ids of the records of a returned list
ListIds(list) == {list[j].obj.ID : j \in DOMAIN list}

\* no id is listed twice
ListedOnce(list) == \A a, b \in DOMAIN list : list[a].obj.ID = list[b].obj.ID => a = b

\* C11: a GetTasksByStatus(s) that runs with nothing else in flight returns
\* records of status s only, each a stored record, and every stored record of
\* status s exactly once; a GetAll that runs with nothing else in flight returns
\* as many records as the two GetTasksByStatus results hold together.
C11_ByStatus ==
    /\ (Returned(1, "GetTasksByStatus") /\ solo[1]) =>
          /\ loc[1].err = ""
          /\ \A j \in DOMAIN loc[1].list :
                /\ loc[1].list[j].obj.Status = loc[1].status
                /\ Stored(loc[1].list[j].obj.ID)
          /\ ListedOnce(loc[1].list)
          /\ ListIds(loc[1].list) = OfStatus(loc[1].status)
    /\ (Returned(1, "GetAll") /\ solo[1]) =>
          /\ loc[1].err = ""
          /\ Len(loc[1].list) = Cardinality(OfStatus(TaskIncomplete))
                                + Cardinality(OfStatus(TaskCompleted))

\* min(limit, max(0, T - offset)), for a limit and an offset >= 0 given as ints
PageSize(T, offset, limit) ==
    LET rest == IF T > offset[4] THEN T - offset[4] ELSE 0
    IN  IF limit[1] = 0 /\ limit[2] = 0 /\ limit[3] = 0 /\ limit[4] < rest
        THEN limit[4] ELSE rest

\* C12: a GetTasksPaginated(offset, limit), offset >= 0 and limit > 0, that runs
\* with nothing else in flight on a store of T records returns
\* min(limit, max(0, T - offset)) records, each a stored record, none twice, and
\* total = T; none when offset >= T.
C12_Paginated ==
    (Returned(1, "GetTasksPaginated") /\ solo[1]) =>
       /\ loc[1].err = ""
       /\ loc[1].total = RecordCount
       /\ Len(loc[1].list) = PageSize(RecordCount, loc[1].offset, loc[1].limit)
       /\ \A j \in DOMAIN loc[1].list :
             /\ Stored(loc[1].list[j].obj.ID)
             /\ loc[1].list[j].obj = tasks[ShardIndex(loc[1].list[j].obj.ID)][loc[1].list[j].obj.ID]
       /\ ListedOnce(loc[1].list)

\* the shards whose lock thread t holds
HeldBy(t) == {i \in Shards : wlock[i] = t \/ t \in rlock[i]}

SingleRecordOps == {"Create", "GetByID", "Update", "Delete"}

AllShardOps ==
    {"GetAll", "GetTasksByStatus", "GetTasksCreatedAfter", "GetTasksPaginated",
     "GetStats", "GetUsage", "Clear"}

\* C13: at every point every running operation holds the lock of at most one
\* shard: an operation on one record holds only the lock of the shard its id
\* hashes to, an operation that visits all shards holds only the lock of the
\* shard it is visiting, HealthCheck holds none, and a caller between two calls
\* holds none.
C13_OneShardLock ==
    \A t \in Threads :
       /\ Cardinality(HeldBy(t)) <= 1
       /\ AtRest(t) => HeldBy(t) = {}
       /\ loc[t].op \in SingleRecordOps => HeldBy(t) \subseteq {ShardIndex(loc[t].id)}
       /\ loc[t].op \in AllShardOps => HeldBy(t) \subseteq {loc[t].i}
       /\ loc[t].op = "HealthCheck" => HeldBy(t) = {}

\* caller 1, in GetUsage, holds the read lock of the last shard while caller 2,
\* in Clear, holds the write lock of a shard caller 1 has left
C13_Witness ==
    /\ loc[1].op = "GetUsage" /\ HeldBy(1) = {shardCount - 1}
    /\ loc[2].op = "Clear" /\ HeldBy(2) = {1}

\* C14: under a fair scheduler every operation a caller has started returns,
\* whatever the other callers run: no caller waits for a lock for ever.
C14_EveryCallReturns == \A t \in Threads : (~AtRest(t)) ~> AtRest(t)

\* caller 1, in Create, waits for the write lock of a shard caller 2 holds
C14_Witness ==
    /\ pc[1] = "create_lock"
    /\ ~CanLock(ShardIndex(loc[1].id))
    /\ ~AtRest(2)

\* the steps that read a shard's map or map field, and the steps that write them
MapReads == {"get_read", "scan_read", "stats_read", "usage_read", "health_read"}
MapWrites == {"create_store", "update_apply", "delete_apply", "clear_reset"}

\* the shard the next step of thread t works on
ShardAt(t) == IF loc[t].op \in SingleRecordOps THEN ShardIndex(loc[t].id) ELSE loc[t].i

\* C15: the store has no data race: a thread about to read a shard's map or map
\* field holds that shard's read or write lock, a thread about to write them
\* holds its write lock, and so no two threads are ever about to access the same
\* shard with one of them writing; HealthCheck is one of the operations.
C15_NoDataRace ==
    /\ \A t \in Threads :
          /\ pc[t] \in MapReads => ShardAt(t) \in HeldBy(t)
          /\ pc[t] \in MapWrites => wlock[ShardAt(t)] = t
    /\ \A t, u \in Threads :
          (t # u /\ pc[t] \in MapWrites /\ pc[u] \in MapReads \cup MapWrites)
             => ShardAt(t) # ShardAt(u)

\* the store as NewMemoryStorage(given) builds it: the ceiling and the shard
\* count of the construction, every shard with an empty map and a free lock,
\* the counter at zero
AsConstructed ==
    /\ maxTasks = EffectiveMaxTasks(given)
    /\ shardCount = ShardCountFor(given)
    /\ DOMAIN tasks = 0..(shardCount - 1)
    /\ \A i \in Shards : tasks[i] = EmptyMap /\ made[i] /\ CanLock(i)
    /\ taskCount = 0

\* the call before the one that has just returned was a Clear that ran alone
AfterClear == pc[1] = "done" /\ chain.op = "Clear"

C16_Refilled ==
    /\ Succeeded(1, "Create")
    /\ chain.op = "Create"
    /\ uuids = MaxIds
    /\ RecordCount = SmallCeiling

\* the records the store holds
StoredRecords == UNION {{tasks[i][k] : k \in DOMAIN tasks[i]} : i \in Shards}

\* C17: every record the store holds has a name that is not empty and not
\* longer than 255 and a status that is 0 or 1; a Create whose name or status is
\* anything else, and an Update that sets a name or a status that is anything
\* else, return a validation error and leave the records as they were.
C17_ValidRecords ==
    /\ \A r \in StoredRecords :
          /\ r.Name # "" /\ Len(r.Name) <= 255
          /\ r.Status \in {0, 1}
    /\ (Returned(1, "Create") /\ ~AcceptableCreate(loc[1].creq)) =>
          loc[1].err \in ValidationErrors /\ tasks = snap.tasks
    /\ (Returned(1, "Update") /\ (BadUpdateName(loc[1].ureq) \/ BadUpdateStatus(loc[1].ureq))) =>
          loc[1].err \in ValidationErrors /\ tasks = snap.tasks

\* a Create with a name of 256 has returned while a record whose name, of 255,
\* an Update has set is stored
C17_Witness ==
    /\ Returned(1, "Create")
    /\ Len(loc[1].creq.Name) = 256
    /\ \E r \in StoredRecords : Len(r.Name) = 255 /\ r.UpdatedAt > r.CreatedAt

\* the ceiling a store constructed with maxTasks n is to have
CeilingOf(n) == IF n <= 0 THEN 10000 ELSE n

\* C18: a store constructed with maxTasks <= 0 has the ceiling 10000, one
\* constructed with maxTasks > 0 has that ceiling; no operation changes the
\* ceiling, and GetMaxTasks returns it whenever it is called.
C18_Ceiling ==
    /\ [](/\ maxTasks = CeilingOf(given)
          /\ \A t \in Threads : Returned(t, "GetMaxTasks") => loc[t].n = CeilingOf(given))
    /\ [][maxTasks' = maxTasks /\ given' = given]_vars

\* GetMaxTasks has returned on a store constructed with maxTasks 0 in which a
\* record was created and a Clear has run
C18_Witness ==
    /\ given = 0
    /\ Returned(1, "GetMaxTasks")
    /\ uuids > 0
    /\ RecordCount = 0
    /\ taskCount = 0

\* C19: HealthCheck returns an error only when the store has no shards or a
\* shard without a map, and does return one when it runs on a store whose
\* shards were taken away; on a store that has its shards, whatever Creates
\* and Clears have run or are running, every shard has its map and HealthCheck
\* returns no error.
C19_HealthCheck ==
    \A t \in Threads : Returned(t, "HealthCheck") =>
       /\ Intact => (\A i \in Shards : made[i]) /\ loc[t].err = ""
       /\ loc[t].err # "" => (~Intact \/ \E i \in Shards : ~made[i])
       /\ (~Intact /\ solo[t]) => loc[t].err = ErrNoShards

\* HealthCheck has returned while a Clear that began before it holds the write
\* lock of the last shard, about to replace its map
C19_Witness ==
    /\ Returned(1, "HealthCheck")
    /\ ~solo[1]
    /\ Intact
    /\ pc[2] = "clear_reset"
    /\ loc[2].i = shardCount - 1

\* HealthCheck has returned its error on the store without shards
C19_NoShards == Returned(1, "HealthCheck") /\ ~Intact /\ solo[1] /\ loc[1].err = ErrNoShards

\* the sum of the numbers of a list
RECURSIVE SumOf(_)
SumOf(list) == IF list = <<>> THEN 0 ELSE Head(list) + SumOf(Tail(list))

\* C20: a GetUsage that ran with nothing else running reports as current_tasks
\* the number of records stored, as available the ceiling less current_tasks,
\* and a shard_distribution with one entry for each shard, the entries adding
\* up to current_tasks.
C20_Usage ==
    (Returned(1, "GetUsage") /\ solo[1]) =>
       /\ loc[1].n = RecordCount
       /\ loc[1].total = maxTasks - loc[1].n
       /\ Len(loc[1].dist) = shardCount
       /\ SumOf(loc[1].dist) = loc[1].n

\* the requests before the j-th that the IP check passed for the j-th request's
\* IP in the window the j-th was judged in
PassedForIP(j) ==
    {i \in 1..(j - 1) : served[i].ipok /\ served[i].ip = served[j].ip
                        /\ served[i].win = served[j].win}

\* the requests up to the j-th that were allowed for the j-th request's IP in
\* the window the j-th was judged in, and the same for its API key
AllowedForIP(j) ==
    {i \in 1..j : served[i].ok /\ served[i].ip = served[j].ip /\ served[i].win = served[j].win}
AllowedForKey(j) ==
    {i \in 1..j : served[i].ok /\ served[i].key = served[j].key
                  /\ served[i].kwin = served[j].kwin}

\* C21: whatever the limits, in one window at most PerIP requests of one IP and
\* at most PerAPIKey requests of one API key are allowed; a request judged when
\* that many of its IP were already allowed in the window is rejected; a
\* rejected request is answered 429; and the IP check of a request counts the
\* requests of its own IP alone: it passes exactly while fewer than PerIP
\* requests of that IP have passed it in the window.
C21_RateLimit ==
    /\ \A j \in 1..Len(served) :
          /\ Cardinality(AllowedForIP(j)) <= limiter.config.PerIP
          /\ served[j].key # "" => Cardinality(AllowedForKey(j)) <= limiter.config.PerAPIKey
          /\ Cardinality(AllowedForIP(j) \ {j}) >= limiter.config.PerIP => ~served[j].ok
          /\ served[j].ipok <=> Cardinality(PassedForIP(j)) < limiter.config.PerIP
    /\ \A t \in Threads : http[t].h = "responded" =>
          \E j \in 1..Len(served) :
             /\ served[j].ip = http[t].ip /\ served[j].key = http[t].key
             /\ served[j].now = http[t].now
             /\ http[t].status = 429 <=> ~served[j].ok

\* C22: a DELETE request for an id answers 200 or 404, never 500: 200 when its
\* Delete removed the record, 404 when the record was not there.
C22_DeleteAnswers ==
    \A t \in Threads :
       (http[t].h = "responded" /\ http[t].id # 0) =>
          /\ http[t].status \in {200, 404}
          /\ http[t].status = 200 => calls[t] = 2
          /\ Returned(t, "Delete") => (http[t].status = 200 <=> loc[t].err = "")

\* C23: whenever no operation is running the counter equals the number of
\* records the shards hold, and a Count that ran with nothing else running
\* returns that number.
C23_CountIsRecords ==
    /\ Quiet => taskCount = RecordCount
    /\ \A t \in Threads :
          (Returned(t, "Count") /\ solo[t] /\ Quiet) => loc[t].n = RecordCount

\* C24: the counter is never negative, and no Count returns a negative number.
C24_CountNotNegative ==
    /\ taskCount >= 0
    /\ \A t \in Threads : Returned(t, "Count") => loc[t].n >= 0

\* C25: every GetUsage result, also of a call that overlaps Creates, reports an
\* available between 0 and max_tasks and a usage_percent of at most 100
\* (float64(currentCount) / float64(ms.maxTasks) * 100 <= 100, which for a
\* positive max_tasks is currentCount <= max_tasks).
C25_UsageInRange ==
    \A t \in Threads :
       Returned(t, "GetUsage") =>
          /\ loc[t].total \in 0..maxTasks
          /\ loc[t].n <= maxTasks

\* C26: every GetStats result, also of a call that overlaps Create, Update,
\* Delete or Clear, has TotalTasks = CompletedTasks + IncompleteTasks, and a
\* GetStats that ran with nothing else running reports as CompletedTasks and
\* IncompleteTasks the numbers of stored records of each status.
C26_StatsAddUp ==
    \A t \in Threads :
       Returned(t, "GetStats") =>
          /\ loc[t].total = loc[t].completed + loc[t].incomplete
          /\ (solo[t] /\ Quiet) =>
                /\ loc[t].completed =
                      Cardinality({r \in StoredRecords : r.Status = TaskCompleted})
                /\ loc[t].incomplete =
                      Cardinality({r \in StoredRecords : r.Status # TaskCompleted})

\* a GetAll of thread t is between its first RLock and its return
Scanning(t) == loc[t].op = "GetAll" /\ pc[t] \in {"scan_lock", "scan_read"}

\* the records list has after its first n
Appended(list, n) == {list[j].obj : j \in (n + 1)..Len(list)}

\* C27: a GetAll that overlaps writes returns a list, with no id twice, and the
\* list is made shard by shard of exactly the records the shard holds while
\* GetAll has its read lock: the shard does not change under the read lock, the
\* pass over it appends each of its records once and nothing else, and no write
\* by another caller changes what has been collected.
C27_GetAllSnapshot ==
    /\ [](\A t \in Threads :
             Returned(t, "GetAll") => (loc[t].err = "" /\ ListedOnce(loc[t].list)))
    /\ [][\A t \in Threads :
             /\ (Scanning(t) /\ pc'[t] = pc[t]) => loc'[t].list = loc[t].list
             /\ (Scanning(t) /\ pc[t] = "scan_read" /\ pc'[t] = pc[t]) =>
                   tasks'[loc[t].i] = tasks[loc[t].i]
             /\ (Scanning(t) /\ pc[t] = "scan_read" /\ pc'[t] # pc[t]) =>
                   LET i == loc[t].i
                       n == Len(loc[t].list)
                   IN  /\ SubSeq(loc'[t].list, 1, n) = loc[t].list
                       /\ Len(loc'[t].list) = n + Cardinality(DOMAIN tasks[i])
                       /\ Appended(loc'[t].list, n) = {tasks[i][k] : k \in DOMAIN tasks[i]}]_vars

\* the callers whose Delete of id has returned, and those of them it returned nil to
DeletedBy(id) == {t \in Threads : Returned(t, "Delete") /\ loc[t].id = id}
RemovedBy(id) == {t \in DeletedBy(id) : loc[t].err = ""}

\* C28: of the Deletes of one stored id that run at the same time exactly one
\* returns success and every other returns not-found; the record is removed
\* once and the counter is lowered once for it.
C28_OneDeleteWins ==
    (\A u \in Threads : AtRest(u) \/ loc[u].op = "Delete") =>
       /\ \A id \in 1..uuids :
             /\ DeletedBy(id) # {} => Cardinality(RemovedBy(id)) = 1
             /\ \A t \in DeletedBy(id) \ RemovedBy(id) : loc[t].err = ErrNotFound
             /\ Stored(id) <=> RemovedBy(id) = {}
       /\ taskCount = uuids - Cardinality({id \in 1..uuids : RemovedBy(id) # {}})

\* two Deletes of one stored id overlapped; the first returned nil, the other not-found
C28_Witness ==
    /\ Returned(1, "Delete") /\ Returned(2, "Delete")
    /\ loc[1].id = loc[2].id /\ loc[1].id \in 1..uuids
    /\ ~solo[2]
    /\ loc[1].err = "" /\ loc[2].err = ErrNotFound
    /\ taskCount = uuids - 1

\* the Updates of id that have returned a record
UpdatedBy(id) == {t \in Threads : Succeeded(t, "Update") /\ loc[t].id = id}

\* C29: Updates of one record that run at the same time are not lost: a stored
\* record carries the name of every Update of it that supplied a name and
\* returned, and the status of every one that supplied a status; the step in
\* which an Update holds the shard's write lock changes the supplied fields of
\* that record and no other field but updated_at, and the record the Update
\* returns is the stored record as that step leaves it.
C29_UpdatesKept ==
    /\ [](\A id \in AllKeys : \A t \in UpdatedBy(id) :
             LET stored == tasks[ShardIndex(id)][id]
             IN  /\ loc[t].ureq.Name.set => stored.Name = loc[t].ureq.Name.val
                 /\ loc[t].ureq.Status.set => stored.Status = loc[t].ureq.Status.val)
    /\ [][\A t \in Threads :
             (pc[t] = "update_apply" /\ pc'[t] = "done" /\ loc'[t].err = "") =>
                LET i == ShardIndex(loc[t].id)
                    old == tasks[i][loc[t].id]
                    new == tasks'[i][loc[t].id]
                    req == loc[t].ureq
                IN  /\ new.Name = IF req.Name.set THEN req.Name.val ELSE old.Name
                    /\ new.Status = IF req.Status.set THEN req.Status.val ELSE old.Status
                    /\ new.ID = old.ID /\ new.CreatedAt = old.CreatedAt
                    /\ loc'[t].task.obj = new
                    /\ \A j \in Shards : \A k \in DOMAIN tasks[j] :
                          k # loc[t].id => (k \in DOMAIN tasks'[j] /\ tasks'[j][k] = tasks[j][k])]_vars

\* an Update of the name and an Update of the status of one record overlapped
\* and both have returned: the record carries both
C29_Witness ==
    /\ Succeeded(1, "Update") /\ Succeeded(2, "Update")
    /\ loc[1].id = loc[2].id
    /\ ~solo[1] \/ ~solo[2]
    /\ loc[1].ureq = NameOnly("B") /\ loc[2].ureq = StatusOnly(TaskCompleted)
    /\ Stored(loc[1].id)
    /\ tasks[ShardIndex(loc[1].id)][loc[1].id].Name = "B"
    /\ tasks[ShardIndex(loc[1].id)][loc[1].id].Status = TaskCompleted

\* the request has a field that Validate rejects; it supplies no field at all
BadField(req) ==
    \/ req.Name.set /\ (req.Name.val = "" \/ Len(req.Name.val) > MaxNameLen)
    \/ req.Status.set /\ req.Status.val \notin {TaskIncomplete, TaskCompleted}
SuppliesNothing(req) == ~req.Name.set /\ ~req.Status.set

\* C30: Update reports a validation error before "no updates provided" and
\* that before not-found: an Update with a field Validate rejects returns the
\* validation error and one with no field returns "no updates provided", stored
\* id or not, and neither takes a shard lock; only an Update that passes both
\* checks locks a shard, and only such an Update returns not-found.
C30_UpdateOrder ==
    /\ [](\A t \in Threads :
             /\ Returned(t, "Update") =>
                   /\ BadField(loc[t].ureq) =>
                         loc[t].err = ErrValidation(UpdateValidate(loc[t].ureq))
                   /\ SuppliesNothing(loc[t].ureq) => loc[t].err = ErrNoUpdates
                   /\ loc[t].err = ErrNotFound =>
                         (~BadField(loc[t].ureq) /\ ~SuppliesNothing(loc[t].ureq))
             /\ (loc[t].op = "Update" /\ pc[t] \in {"update_lock", "update_apply"}) =>
                   (~BadField(loc[t].ureq) /\ ~SuppliesNothing(loc[t].ureq)))
    /\ [][\A t \in Threads :
             (pc[t] = "update_check" /\ pc'[t] = "done") =>
                (wlock' = wlock /\ rlock' = rlock /\ tasks' = tasks)]_vars

\* an Update with no field, of an id that is not stored, has returned "no
\* updates provided"
C30_Witness ==
    /\ Returned(1, "Update") /\ ~Stored(loc[1].id)
    /\ loc[1].ureq = NoUpdate
    /\ loc[1].err = ErrNoUpdates

\* an Update with an invalid status, of an id that is not stored, has returned
\* the validation error
C30_Invalid ==
    /\ Returned(1, "Update") /\ ~Stored(loc[1].id)
    /\ loc[1].ureq = StatusOnly(2)
    /\ loc[1].err = ErrValidation("invalid task status")

\* C31: a Create with an invalid name or status returns the validation error,
\* also when the store is full; a valid Create on a full store returns the
\* capacity error; and every Create that failed returned no record and left the
\* shards' records and the counter as they were when it was called.
C31_CreateFailures ==
    \A t \in Threads :
       Returned(t, "Create") =>
          /\ ~AcceptableCreate(loc[t].creq) => loc[t].err \in ValidationErrors
          /\ (AcceptableCreate(loc[t].creq) /\ snap.taskCount >= maxTasks) => loc[t].err = ErrCapacity
          /\ loc[t].err # "" =>
                /\ loc[t].task.nil
                /\ tasks = snap.tasks
                /\ taskCount = snap.taskCount

\* a Create with an invalid status on a full store has returned the validation error
C31_Witness ==
    /\ Returned(1, "Create")
    /\ loc[1].creq = [Name |-> "A", Status |-> 2]
    /\ snap.taskCount = maxTasks /\ RecordCount = maxTasks
    /\ loc[1].err = ErrValidation("invalid task status")
    /\ loc[1].task.nil

\* the shards that hold a record under key k
HoldersOf(k) == {i \in Shards : k \in DOMAIN tasks[i]}

\* C32: every stored record is in one shard only, the shard whose index is the
\* FNV-1a hash of its id modulo the number of shards, under the key that is its
\* own ID; and the locked step of a GetByID, an Update or a Delete of an id
\* that some shard holds finds the record.
C32_RecordsInTheirShard ==
    /\ [](\A i \in Shards : \A k \in DOMAIN tasks[i] :
             /\ tasks[i][k].ID = k
             /\ i = HashMod(fnv32Hash(IdKey(k)), shardCount)
             /\ HoldersOf(k) = {i})
    /\ [][\A t \in Threads :
             (/\ pc[t] \in {"get_read", "update_apply", "delete_apply"}
              /\ pc'[t] = "done"
              /\ HoldersOf(loc[t].id) # {}) => loc'[t].err = ""]_vars

\* two records are stored in two different shards and a GetByID has found one
C32_Witness ==
    /\ Succeeded(1, "GetByID")
    /\ \E k1, k2 \in AllKeys : HoldersOf(k1) # HoldersOf(k2)

\* the number of shards the claim gives a store of ceiling c
ShardsOf(c) == IF c < 1000 THEN 8 ELSE IF c > 100000 THEN 64 ELSE 32

RecordsOf(list) == {list[j].obj : j \in DOMAIN list}

\* the two stores have answered the same call
BothAnswered == pc[1] = "done" /\ calls[1] = 0 /\ loc[1].op # ""

\* what the two answers have in common whatever the operation
SameOutcome ==
    /\ loc[1].err = single.ret.err
    /\ loc[1].op \in {"Create", "GetByID", "Update"} =>
          /\ loc[1].task.nil = single.ret.task.nil
          /\ loc[1].task.obj = single.ret.task.obj
    /\ loc[1].op = "Count" => loc[1].n = single.ret.n
    /\ loc[1].op \in {"GetAll", "GetTasksByStatus"} =>
          /\ Len(loc[1].list) = Len(single.ret.list)
          /\ RecordsOf(loc[1].list) = RecordsOf(single.ret.list)
    /\ StoredRecords = {single.tasks[k] : k \in DOMAIN single.tasks}

\* C34 as stated: called one at a time with the same inputs, ids and clock, the
\* sharded and the single-lock store return the same successes and errors, the
\* same Count, and result sets that are equal up to their order, those of
\* GetTasksPaginated included.
C34_SameResults ==
    BothAnswered =>
       /\ SameOutcome
       /\ loc[1].op = "GetTasksPaginated" =>
             /\ loc[1].total = single.ret.total
             /\ RecordsOf(loc[1].list) = RecordsOf(single.ret.list)

\* C34 amended: as C34_SameResults, but of GetTasksPaginated the two stores
\* return the same total and pages of the same length, each page made of
\* records of the store with no id twice; which records the page holds depends
\* on the order each store ranges over its maps in.
C34_SameContract ==
    BothAnswered =>
       /\ SameOutcome
       /\ loc[1].op = "GetTasksPaginated" =>
             /\ loc[1].total = single.ret.total
             /\ Len(loc[1].list) = Len(single.ret.list)
             /\ RecordsOf(loc[1].list) \subseteq StoredRecords
             /\ RecordsOf(single.ret.list) \subseteq StoredRecords
             /\ ListedOnce(loc[1].list) /\ ListedOnce(single.ret.list)

\* both stores full, a record updated at a later time than it was created, and
\* both have answered a GetAll with the same two records
C34_Witness ==
    /\ BothAnswered
    /\ loc[1].op = "GetAll"
    /\ Len(loc[1].list) = SmallCeiling
    /\ RecordsOf(loc[1].list) = RecordsOf(single.ret.list)
    /\ \E r \in RecordsOf(single.ret.list) : r.UpdatedAt > r.CreatedAt

\* the thread serves a GET /tasks/paginated and has not answered it
Paginating(t) == http[t].h = "paginated"

\* C35: the handler of GET /tasks/paginated calls GetTasksPaginated of the
\* store only with 0 <= offset and 1 <= limit <= 100; a request whose offset is
\* not a number or negative, or whose limit is not a number, not positive or
\* above 100, is answered 400 and no call of the store is made for it; and no
\* call the handler makes ends in the slice-bounds panic.
C35_PaginatedBounds ==
    \A t \in Threads :
       /\ (Paginating(t) /\ loc[t].op = "GetTasksPaginated" /\ calls[t] = 1) =>
             /\ ~IsNeg64(loc[t].offset)
             /\ Less64(Int64Of(0), loc[t].limit)
             /\ ~Less64(Int64Of(100), loc[t].limit)
             /\ loc[t].err # ErrSliceBounds
       /\ (http[t].h # "" /\ (http[t].offset \in BadOffsets \/ http[t].limit \in BadLimits)) =>
             /\ ~Paginating(t)
             /\ http[t].h = "responded" /\ http[t].status = 400
             /\ calls[t] = 0
       /\ (http[t].offset \in GoodOffsets /\ http[t].limit \in GoodLimits) =>
             (Paginating(t) \/ (http[t].h = "responded" /\ http[t].status = 200))

\* a request with the largest offset and limit 100 has been answered 200, with
\* records stored, while another with a limit of 101 was answered 400
C35_Witness ==
    /\ http[1].h = "responded" /\ http[1].status = 200
    /\ http[1].offset = Ascii(MaxInt64Digits) /\ http[1].limit = Ascii(<<1, 0, 0>>)
    /\ Returned(1, "GetTasksPaginated") /\ loc[1].total = SmallCeiling
    /\ http[2].h = "responded" /\ http[2].status = 400
    /\ http[2].offset = Ascii(<<0>>) /\ http[2].limit = Ascii(<<1, 0, 1>>)

\* C36: a request the rate limiter rejects consumes no quota: the step in which
\* Allow answers a request with a rejection leaves the records of every IP and
\* of every API key as they were, also when the IP check passed and the check
\* of the API key rejected.
C36_RejectedKeepsQuota ==
    [][\A t \in Threads :
          (http[t].h = "allow_check" /\ http'[t].h = "responded" /\ http'[t].status = 429) =>
             /\ limiter'.ipRecords = limiter.ipRecords
             /\ limiter'.keyRecords = limiter.keyRecords]_vars

\* the allowed requests up to the j-th of the j-th request's IP in the window
\* the j-th was judged in: those to a health path, the GETs to other paths, and
\* the POSTs, PUTs and DELETEs to other paths
HealthPaths == {"/health", "/api/v1/health"}
AllowedHealth(j) == {i \in AllowedForIP(j) : served[i].path \in HealthPaths}
AllowedReads(j) ==
    {i \in AllowedForIP(j) : served[i].path \notin HealthPaths /\ served[i].method = "GET"}
AllowedWrites(j) ==
    {i \in AllowedForIP(j) : /\ served[i].path \notin HealthPaths
                             /\ served[i].method \in {"POST", "PUT", "DELETE"}}

\* C37: under SmartRateLimit with PerIP >= 1, in one window one IP is allowed at
\* most PerIP / 2 (integer division) POST, PUT or DELETE requests, at most
\* PerIP GET requests to ordinary paths and at most 5 * PerIP requests to the
\* health paths, all counted by one counter of the IP: no request is allowed
\* once as many requests of the IP as its own limit were allowed in the window.
C37_SmartLimits ==
    \A j \in 1..Len(served) :
       /\ Cardinality(AllowedWrites(j)) <= limiter.config.PerIP \div 2
       /\ Cardinality(AllowedReads(j)) <= limiter.config.PerIP
       /\ Cardinality(AllowedHealth(j)) <= 5 * limiter.config.PerIP

\* the most requests checkLimit allows one identifier in one window when no
\* record is ever removed: the limit, and one for a limit below one
WindowQuota(limit) == IF limit < 1 THEN 1 ELSE limit

\* the request thread t is about to have judged comes more than one window
\* after the first request of the current window of its IP
WindowPassed(t) ==
    /\ limiter.ipRecords[http[t].ip].exists
    /\ http[t].now - limiter.ipRecords[http[t].ip].FirstSeen > limiter.config.WindowSize

\* C38: cleanup, running at any moment beside the requests, gives no identifier
\* more allowed requests in one window than it has without cleanup (the limit,
\* or one for a limit below one), for IPs and for API keys; and the IP check
\* passes a request that comes more than one window after the first request of
\* the current window of its IP, whatever was rejected before.
C38_CleanupKeepsLimits ==
    /\ [](\A j \in 1..Len(served) :
             /\ Cardinality(AllowedForIP(j)) <= WindowQuota(limiter.config.PerIP)
             /\ served[j].key # "" =>
                   Cardinality(AllowedForKey(j)) <= WindowQuota(limiter.config.PerAPIKey))
    /\ [][\A t \in Threads :
             (http[t].h = "allow_check" /\ http'[t].h = "responded" /\ WindowPassed(t)) =>
                served'[Len(served')].ipok]_vars

\* the exclusive or of two bytes, bit by bit
ByteXor(a, b) ==
    LET bit(k) == IF ((a \div (2 ^ k)) % 2) # ((b \div (2 ^ k)) % 2) THEN 2 ^ k ELSE 0
    IN  bit(0) + bit(1) + bit(2) + bit(3) + bit(4) + bit(5) + bit(6) + bit(7)

\* FNV-1a on the four bytes <<b3, b2, b1, b0>> of a 32-bit number: the byte is
\* XORed into the lowest byte, and the product with 16777619 = 2^24 + 403
\* modulo 2^32 is 403 times the number plus its lowest byte moved to the top
Fnv1aStep(b, byte) ==
    LET x0 == ByteXor(b[4], byte)
        m == 16777619 % 16777216
        t0 == x0 * m
        t1 == (b[3] * m) + (t0 \div 256)
        t2 == (b[2] * m) + (t1 \div 256)
        t3 == (b[1] * m) + (t2 \div 256) + x0
    IN  <<t3 % 256, t2 % 256, t1 % 256, t0 % 256>>

\* from 2166136261 = 129 * 2^24 + 28 * 2^16 + 157 * 2^8 + 197, byte after byte
RECURSIVE Fnv1aFrom(_, _, _)
Fnv1aFrom(b, key, i) ==
    IF i > Len(key) THEN b ELSE Fnv1aFrom(Fnv1aStep(b, key[i]), key, i + 1)
Fnv1a(key) == Fnv1aFrom(<<129, 28, 157, 197>>, key, 1)
Fnv1aOf == [key \in HashKeys |-> Fnv1a(key)]

\* the remainder of the number of these bytes on division by n
RECURSIVE BytesMod(_, _, _)
BytesMod(b, i, n) == IF i = 0 THEN 0 ELSE ((BytesMod(b, i - 1, n) * 256) + b[i]) % n

\* C39: fnv32Hash is the 32-bit FNV-1a hash of the key's bytes (from
\* 2166136261, each byte in order XORed in and the result multiplied by
\* 16777619 modulo 2^32); it depends on the key alone: two calls with one key
\* give one hash; and the index getShard takes, the hash modulo shardCount, is
\* at least 0 and below shardCount.
C39_Fnv1a ==
    hashing.at = "done" =>
       LET b == Fnv1aOf[hashing.key]
       IN  /\ hashing.hash = <<(b[1] * 256) + b[2], (b[3] * 256) + b[4]>>
           /\ (hashing.before.at = "done" /\ hashing.before.key = hashing.key) =>
                 hashing.before.hash = hashing.hash
           /\ hashing.index \in 0..(shardCount - 1)
           /\ hashing.index = BytesMod(b, 4, shardCount)

\* "foobar" has been hashed to 0xbf9cf968 after a first call with the same key,
\* on a store of 32 shards, and getShard took shard 8
C39_Witness ==
    /\ hashing.at = "done"
    /\ hashing.key = Foobar
    /\ hashing.before.at = "done" /\ hashing.before.key = Foobar
    /\ hashing.hash = <<49052, 63848>>
    /\ shardCount = 32 /\ hashing.index = 8

====
